---- MODULE Spec2Model ----
(***************************************************************************)
(* Market-pair resolution engine of op-pm-arb-monitor                      *)
(* (src/token_registry_core.py, src/token_registry.py).                    *)
(*                                                                         *)
(* Specifications over one set of variables; each leaves the variables of  *)
(* the others at their idle values:                                        *)
(*   SpecBuild  the incremental build: load_cache, build_all's scan of the *)
(*              configuration list, the worker pool's completions, the     *)
(*              returned list and the rewrite of the registry file, run    *)
(*              after run;                                                 *)
(*   SpecMatch  the categorical branch of build_entry_from_urls: the       *)
(*              greedy matcher and the two unmatched lists;                *)
(*   SpecLimiter HostRateLimiter.wait for one host, called by two worker   *)
(*              threads while time passes; SpecHosts the same with the     *)
(*              workers on one or on two hosts; SpecShared the limiter and *)
(*              the build together, for the state the threads share;       *)
(*   SpecRetry  one call of _request_with_retry; SpecRetryLive adds the    *)
(*              fairness of the loop's steps;                              *)
(*   SpecPrune  prune_expired_markets, applied to an entry list and then   *)
(*              to its own result;                                         *)
(*   SpecExample the matcher on the rate-decision event;                   *)
(*   SpecKeys   _make_keys on one label;                                   *)
(*   SpecLookup one Opinion market lookup, generic or categorical;         *)
(*   SpecWeight _key_weight and _score_keys on a set of fingerprints;      *)
(*   SpecEndDate the endDate of each market of an event, listed or looked  *)
(*              up, as gamma_event_to_candidate_markets resolves it.       *)
(***************************************************************************)
EXTENDS Integers, Sequences, FiniteSets, TLC

VARIABLES
    \* ---- build_all / __main__ -------------------------------------------
    cfgs,        \* URL_PAIRS_FOR_DEBUG: the configuration list (never changes)
    file,        \* market_token_pairs.json: the persisted list of entries
    file_state,  \* "absent" | "invalid" (no JSON list) | "list"
    run,         \* number of the current program run
    refresh,     \* build_all's refresh argument of the current run
    pc,          \* "idle" | "scan" | "pool" | "returned" | "off" | "crashed"
    idx,         \* next index of the scan loop `for i, cfg in enumerate(url_pairs)`
    heap,        \* the entry objects (dicts) alive in this run, by object id
    cache,       \* cache: cache key -> object id (0 = key absent)
    results,     \* results_by_index: slot -> [obj, src] (obj = 0 is None)
    tasks,       \* tasks: the indices appended to `tasks`, in order
    pending,     \* futures not yet yielded by as_completed
    done,        \* the config indices in the order as_completed yielded them
    log,         \* what build_all printed for each config in this run
    ret,         \* the list build_all returned
    prevOk,      \* the previous run had no failed config
    cache_writers, \* the threads that have assigned into the cache map in this run
    \* ---- build_entry_from_urls (categorical) ----------------------------
    mpc,         \* "off" | "match" | "built"
    op_children, \* opinion_fetch_categorical_children(opinion_market_id)
    event_markets, \* the markets of the event gamma_get_event_by_slug(slug) returned
    pm_markets,  \* pm_candidate_markets of gamma_event_to_candidate_markets(ev)
    m_i,         \* next index of the loop `for it in op_items`
    used_pm_market_ids,
    pairs,       \* the pairs list so far
    entry,       \* the lists of the categorical entry returned
    \* ---- HostRateLimiter.wait, several worker threads --------------------
    interval,    \* host_min_interval[host], the same for every host
    clock,       \* time.monotonic()
    next_allowed, \* _next_allowed: per host (NoNext: the host has no entry yet)
    l_host,      \* per worker: the host of the URLs it waits for
    last_slot,   \* per host: the `scheduled` value handed out last (NoNext: none yet)
    lpc,         \* per worker: "idle" | "read" | "in_lock" | "locked" (the
                 \* `with` block is left) | "sleep"
    lock,        \* self._lock: the worker that holds it, 0 when free
    l_now,       \* per worker: the local `now`
    l_scheduled, \* per worker: the local `scheduled`
    l_wake,      \* per worker: the time before which time.sleep does not return
    l_calls,     \* per worker: calls of wait begun
    released,    \* the times at which wait returned, in order
    \* ---- _request_with_retry, one call ---------------------------------
    max_retries, \* MAX_RETRIES (HTTP_MAX_RETRIES of the environment)
    rpc,         \* "off" | "loop" | "returned" | "raised"
    r_events,    \* the limiter waits and the requests of the call, in order
    attempt,     \* the loop variable of `for attempt in range(MAX_RETRIES)`
    last_exc,    \* last_exc (NoExc: None)
    r_attempts,  \* what each request attempt made so far yielded, in order
    r_waits,     \* calls of _RATE_LIMITER.wait made so far
    r_backoff,   \* the multiples of BACKOFF_BASE slept so far, in order
    r_result,    \* the response returned or the error raised
    \* ---- prune_expired_markets, applied twice --------------------------
    ppc,         \* "off" | "start" | "pruned" | "again"
    p_input,     \* the entry list as it was before the first call
    p_results,   \* the entry list passed to the first call (its entries are
                 \* modified in place)
    p_now,       \* now_utc, in hours
    p_grace,     \* grace_seconds, in hours
    p_keep,      \* per entry of p_results: the first call kept it
    p_kept,      \* the list the first call returned
    p_again,     \* the list the second call returned, given p_kept
    \* ---- _make_keys, one call ------------------------------------------
    kpc,         \* "off" | "call" | "done"
    k_label,     \* the argument label
    k_extra,     \* the argument extra_text ("" for None)
    k_keys,      \* the fingerprints returned
    lk_type,     \* the kind of the lookup: "binary" | "categorical"
    lk_pc,       \* "off" | "loop" | "returned" | "raised"
    lk_url,      \* position in `urls` of the next request
    lk_requests, \* the outcomes of the requests made, in order
    lk_last_err, \* last_err
    lk_market,   \* the market dict returned ("" when none)
    wpc,         \* "off" | "call" | "done"
    w_keys,      \* the set of fingerprints given to _score_keys
    w_score,     \* the score returned
    e_pc,        \* "off" | "loop" | "done"
    e_event_end, \* the event's endDate ("" for none)
    e_markets,   \* the markets of the event: market id (0: none) and listed endDate
    e_i,         \* position of the next market in the loop
    enddate_cache, \* enddate_cache: market id -> endDate looked up ("?": not looked up)
    e_lookups,   \* the calls of gamma_get_market_by_id made: id and outcome, in order
    e_out,       \* parsed["endDate"] of the markets processed, in order
    e_stamps     \* the endDate written into the pair or unmatched item of each market

buildVars == <<cfgs, file, file_state, cache_writers, run, refresh, pc, idx, heap, cache, results, tasks,
               pending, done, log, ret, prevOk>>
matchVars == <<mpc, op_children, event_markets, pm_markets, m_i, used_pm_market_ids, pairs, entry>>
limiterVars == <<interval, clock, next_allowed, l_host, last_slot, lpc, lock, l_now,
                 l_scheduled, l_wake, l_calls, released>>
retryVars == <<max_retries, rpc, attempt, last_exc, r_attempts, r_events, r_waits, r_backoff,
               r_result>>
pruneVars == <<ppc, p_input, p_results, p_now, p_grace, p_keep, p_kept, p_again>>
keysVars == <<kpc, k_label, k_extra, k_keys>>
lookupVars == <<lk_type, lk_pc, lk_url, lk_requests, lk_last_err, lk_market>>
weightVars == <<wpc, w_keys, w_score>>
endDateVars == <<e_pc, e_event_end, e_markets, e_i, enddate_cache, e_lookups, e_out, e_stamps>>
vars == <<buildVars, matchVars, limiterVars, retryVars, pruneVars, keysVars, lookupVars, weightVars, endDateVars>>
\* what the actions of one part leave alone
nonBuildVars == <<matchVars, limiterVars, retryVars, pruneVars, keysVars, lookupVars, weightVars, endDateVars>>
nonMatchVars == <<buildVars, limiterVars, retryVars, pruneVars, keysVars, lookupVars, weightVars, endDateVars>>
nonLimiterVars == <<buildVars, matchVars, retryVars, pruneVars, keysVars, lookupVars, weightVars, endDateVars>>
nonRetryVars == <<buildVars, matchVars, limiterVars, pruneVars, keysVars, lookupVars, weightVars, endDateVars>>
nonPruneVars == <<buildVars, matchVars, limiterVars, retryVars, keysVars, lookupVars, weightVars, endDateVars>>
nonKeysVars == <<buildVars, matchVars, limiterVars, retryVars, pruneVars, lookupVars, weightVars, endDateVars>>
nonLookupVars == <<buildVars, matchVars, limiterVars, retryVars, pruneVars, keysVars, weightVars, endDateVars>>
nonWeightVars == <<buildVars, matchVars, limiterVars, retryVars, pruneVars, keysVars, lookupVars, endDateVars>>
nonEndDateVars == <<buildVars, matchVars, limiterVars, retryVars, pruneVars, keysVars, lookupVars, weightVars>>

(***************************************************************************)
(* Bounds of the model                                                     *)
(***************************************************************************)
MaxCfg == 2       \* longest configuration list
MaxRuns == 2      \* program runs in a behaviour
MaxOp == 2        \* longest side-A (Opinion) child list
MaxPm == 2        \* longest side-B (Polymarket) market list
MaxCalls == 2     \* calls of wait by one worker
MaxInterval == 2  \* largest minimum interval of the host, in clock ticks
MaxTime == 4      \* last tick of the monotonic clock
MaxRetries == 3   \* largest MAX_RETRIES
MaxEntries == 2   \* longest entry list given to the pruner
MaxSub == 1       \* longest pairs / unmatched_polymarket list of an entry
MaxExample == 3   \* longest label list drawn from the rate-decision example
MaxKeys == 3      \* largest set of fingerprints scored
MaxEv == 2        \* most markets of an event whose endDate is resolved

SCHEMA_VERSION == 6

SeqsUpTo(S, n) == UNION {[1..k -> S] : k \in 0..n}

(***************************************************************************)
(* Data model of the build: MarketConfig, Entry, cache keys                *)
(***************************************************************************)
Types == {"binary", "categorical"}

\* A MarketConfig.  url_ok says whether extract_opinion_market_id_from_url
\* finds a market id in opinion_url; op is that id, slug the Polymarket slug.
\* Two configs of the same type share one cache key; "a" and "b" are two
\* display names.
Configs ==
    {[name |-> n, type |-> t, url_ok |-> TRUE, op |-> 1, slug |-> "s"] :
        n \in {"a", "b"}, t \in Types}
    \cup {[name |-> "a", type |-> "binary", url_ok |-> FALSE, op |-> 0, slug |-> "s"]}

\* An Entry, reduced to the fields build_all and the cache helpers read:
\*   sv    schema_version
\*   name  display name
\*   type  "binary" | "categorical"
\*   op    opinion.market_id (binary) / opinion_market_id (categorical); 0 = absent
\*   slug  polymarket.slug / polymarket_event_slug; "" = absent
\*   ok    binary: opinion.yes_token_id, opinion.no_token_id and
\*         polymarket.clob_token_ids are all present (truthy);
\*         categorical: "pairs" is a list
\*   gen   the rest of the content, named by the run that built it (0: the
\*         content of the registry file before the first run)
NoEntry == [sv |-> 0, name |-> "", type |-> "", op |-> 0, slug |-> "", ok |-> FALSE, gen |-> 0]

NoKey == <<"none", 0, "">>
Keys == {<<t, 1, "s">> : t \in Types}

\* _cache_key_from_cfg raises when the Opinion URL carries no market id.
cache_key_raises(cfg) == ~cfg.url_ok

cache_key_from_cfg(cfg) == <<cfg.type, cfg.op, cfg.slug>>

cache_key_from_entry(e) ==
    IF e.type \in Types /\ e.op # 0 /\ e.slug # ""
    THEN <<e.type, e.op, e.slug>>
    ELSE NoKey

\* entry_is_usable without the schema-version test
entry_is_usable_any_version(e) ==
    IF e.type = "binary" THEN e.ok
    ELSE IF e.type = "categorical" THEN e.ok
    ELSE FALSE

entry_is_usable(e) ==
    IF e.sv # SCHEMA_VERSION THEN FALSE
    ELSE IF e.type = "binary" THEN e.ok
    ELSE IF e.type = "categorical" THEN e.ok
    ELSE FALSE

\* load_cache: every entry of the file with a key is stored under its key, in
\* file order, so the last entry of a key is the one kept.  The entry object
\* of file position p has object id p.
load_cache(f) ==
    [k \in Keys |->
        LET S == {p \in 1..Len(f) : cache_key_from_entry(f[p]) = k}
        IN  IF S = {} THEN 0 ELSE CHOOSE p \in S : \A q \in S : q <= p]

EmptyCache == [k \in Keys |-> 0]

\* load_cache raising on a path that does not exist
load_cache_absent_raises(st, f) ==
    IF st = "absent" THEN [raised |-> TRUE, cache |-> EmptyCache]
    ELSE IF st = "invalid" THEN [raised |-> FALSE, cache |-> EmptyCache]
    ELSE [raised |-> FALSE, cache |-> load_cache(f)]

\* load_cache(cache_path): {} for a path that does not exist and for a file
\* that does not parse to a list, else the map of the list's entries
load_cache_path(st, f) ==
    IF st = "absent" THEN [raised |-> FALSE, cache |-> EmptyCache]
    ELSE IF st = "invalid" THEN [raised |-> FALSE, cache |-> EmptyCache]
    ELSE [raised |-> FALSE, cache |-> load_cache(f)]

\* both callers pass keep_cache_on_error=True
keep_cache_on_error == TRUE

\* build_entry_from_urls(cfg), when it returns: the entries it can return.
\* A binary entry is returned whether or not Opinion and Polymarket gave the
\* token ids; a categorical entry always holds a pairs list.
built_entries(cfg, r) ==
    IF cfg.type = "binary"
    THEN {[sv |-> SCHEMA_VERSION, name |-> cfg.name, type |-> "binary", op |-> cfg.op,
           slug |-> cfg.slug, ok |-> o, gen |-> r] : o \in BOOLEAN}
    ELSE {[sv |-> SCHEMA_VERSION, name |-> cfg.name, type |-> "categorical", op |-> cfg.op,
           slug |-> cfg.slug, ok |-> TRUE, gen |-> r]}

\* The registry files a first run can find: none (or an empty list), or one
\* entry written by this or by the previous schema version.
OldEntries ==
    {[sv |-> v, name |-> "a", type |-> t, op |-> 1, slug |-> "s", ok |-> o, gen |-> 0] :
        v \in {SCHEMA_VERSION - 1, SCHEMA_VERSION}, t \in Types, o \in BOOLEAN}
InitialFiles == {<<>>} \cup {<<e>> : e \in OldEntries}

ConfigLists == SeqsUpTo(Configs, MaxCfg) \ {<<>>}

ObjIds == 1..(2 * MaxCfg)
TaskObj(i) == MaxCfg + i

NoResult == [obj |-> 0, src |-> 0]
EmptyHeap == [o \in ObjIds |-> NoEntry]

\* cache_hit with the refresh flag read the wrong way round
cache_hit_flag_inverted(rf, c, hp, key) ==
    rf /\ c[key] # 0 /\ entry_is_usable(hp[c[key]])

\* `(not refresh) and key in cache and _entry_is_usable(cache[key])`
cache_hit(rf, c, hp, key) ==
    ~rf /\ c[key] # 0 /\ entry_is_usable(hp[c[key]])

\* `(not refresh) and keep_cache_on_error and key in cache and
\*  _entry_is_usable(cache[key])`
stale_fallback(rf, c, hp, key) ==
    ~rf /\ keep_cache_on_error /\ c[key] # 0 /\ entry_is_usable(hp[c[key]])

RECURSIVE return_list(_, _, _)
\* [r for r in results_by_index if r is not None], from slot i on
return_list(res, hp, i) ==
    IF i > Len(res) THEN <<>>
    ELSE IF res[i].obj = 0 THEN return_list(res, hp, i + 1)
    ELSE <<[src |-> res[i].src, e |-> hp[res[i].obj]]>> \o return_list(res, hp, i + 1)

\* results collected in completion order: the next free slot is filled
results_put_append(res, i, o) ==
    LET free == {j \in 1..Len(res) : res[j].obj = 0}
        j == CHOOSE j \in free : \A q \in free : j <= q
    IN  [res EXCEPT ![j] = [obj |-> o, src |-> i]]

\* `results_by_index[i] = entry`
results_put(res, i, o) == [res EXCEPT ![i] = [obj |-> o, src |-> i]]

(***************************************************************************)
(* build_all and the launcher around it                                    *)
(***************************************************************************)
NoLists == [pairs |-> <<>>, unmatched_opinion |-> <<>>, unmatched_polymarket |-> <<>>]

MatchIdle ==
    /\ mpc = "off" /\ op_children = <<>> /\ event_markets = <<>> /\ pm_markets = <<>>
    /\ m_i = 1 /\ used_pm_market_ids = {} /\ pairs = <<>> /\ entry = NoLists

\* the rate limiter is not in use
NoNext == -1
\* the hosts of the URLs of the model
Hosts == {"a", "b"}

\* two worker threads of the pool call wait
Workers == {1, 2}
LimiterIdle ==
    /\ interval = 0 /\ clock = 0 /\ next_allowed = [h \in Hosts |-> NoNext]
    /\ l_host = [w \in Workers |-> "a"] /\ last_slot = [h \in Hosts |-> NoNext]
    /\ lpc = [w \in Workers |-> "off"]
    /\ lock = 0
    /\ l_now = [w \in Workers |-> 0]
    /\ l_scheduled = [w \in Workers |-> 0]
    /\ l_wake = [w \in Workers |-> 0]
    /\ l_calls = [w \in Workers |-> 0]
    /\ released = <<>>

\* no request is under way
NoExc == [attempt |-> -1, exc |-> "None"]
NoOutcome == [kind |-> "none", status |-> 0, cause |-> NoExc]
RetryIdle ==
    /\ max_retries = 0 /\ rpc = "off" /\ attempt = 0 /\ last_exc = NoExc
    /\ r_attempts = <<>> /\ r_events = <<>> /\ r_waits = 0 /\ r_backoff = <<>>
    /\ r_result = NoOutcome

\* the pruner is not in use
PruneIdle ==
    /\ ppc = "off" /\ p_input = <<>> /\ p_results = <<>> /\ p_now = 0 /\ p_grace = 0
    /\ p_keep = <<>> /\ p_kept = <<>> /\ p_again = <<>>

\* the key generator is not in use
KeysIdle == kpc = "off" /\ k_label = "" /\ k_extra = "" /\ k_keys = {}

\* no Opinion lookup is in progress
LookupIdle ==
    /\ lk_type = "" /\ lk_pc = "off" /\ lk_url = 0 /\ lk_requests = <<>>
    /\ lk_last_err = "" /\ lk_market = ""

\* no score is being computed
WeightIdle ==
    wpc = "off" /\ w_keys = {} /\ w_score = 0

\* no event is being converted
EndDateIdle ==
    /\ e_pc = "off" /\ e_event_end = "" /\ e_markets = <<>> /\ e_i = 1
    /\ enddate_cache = <<>> /\ e_lookups = <<>> /\ e_out = <<>> /\ e_stamps = <<>>

InitBuild ==
    /\ EndDateIdle
    /\ WeightIdle
    /\ LookupIdle
    /\ PruneIdle
    /\ KeysIdle
    /\ cfgs \in ConfigLists
    /\ file \in InitialFiles
    /\ file_state \in (IF file = <<>> THEN {"absent", "invalid", "list"} ELSE {"list"})
    /\ run = 0
    /\ refresh = FALSE
    /\ pc = "idle"
    /\ idx = 1
    /\ heap = EmptyHeap
    /\ cache = EmptyCache
    /\ results = [i \in 1..Len(cfgs) |-> NoResult]
    /\ tasks = <<>>
    /\ pending = {}
    /\ done = <<>>
    /\ log = [i \in 1..Len(cfgs) |-> "none"]
    /\ ret = <<>>
    /\ prevOk = FALSE
    /\ cache_writers = {}
    /\ MatchIdle
    /\ LimiterIdle
    /\ RetryIdle

\* build_all is called: cache loaded unless refresh, results_by_index and
\* tasks created
StartRun ==
    /\ pc = "idle"
    /\ run < MaxRuns
    /\ run' = run + 1
    /\ \E r \in BOOLEAN :
        LET loaded == IF r THEN [raised |-> FALSE, cache |-> EmptyCache]
                      ELSE load_cache_path(file_state, file)
        IN  /\ refresh' = r
            /\ cache' = loaded.cache
            /\ heap' = [o \in ObjIds |-> IF ~r /\ o <= Len(file) THEN file[o] ELSE NoEntry]
            /\ pc' = IF loaded.raised THEN "crashed" ELSE "scan"
    /\ results' = [i \in 1..Len(cfgs) |-> NoResult]
    /\ tasks' = <<>>
    /\ pending' = {}
    /\ done' = <<>>
    /\ log' = [i \in 1..Len(cfgs) |-> "none"]
    /\ idx' = 1
    /\ ret' = <<>>
    /\ cache_writers' = {}
    /\ UNCHANGED <<cfgs, file, file_state, prevOk, nonBuildVars>>

\* one iteration of `for i, cfg in enumerate(url_pairs)`
Scan ==
    /\ pc = "scan"
    /\ idx <= Len(cfgs)
    /\ LET cfg == cfgs[idx]
           key == cache_key_from_cfg(cfg)
       IN  IF cache_key_raises(cfg)
           THEN /\ log' = [log EXCEPT ![idx] = "keyerr"]
                /\ UNCHANGED <<heap, results, tasks>>
           ELSE IF cache_hit(refresh, cache, heap, key)
           THEN /\ heap' = [heap EXCEPT ![cache[key]].name = cfg.name]
                /\ results' = results_put(results, idx, cache[key])
                /\ log' = [log EXCEPT ![idx] = "hit"]
                /\ UNCHANGED tasks
           ELSE /\ tasks' = Append(tasks, idx)
                /\ log' = [log EXCEPT ![idx] = "task"]
                /\ UNCHANGED <<heap, results>>
    /\ idx' = idx + 1
    /\ UNCHANGED <<cfgs, file, file_state, cache_writers, run, refresh, pc, cache, pending, done, ret, prevOk,
                   nonBuildVars>>

\* `if not tasks: return [...]`
ReturnNoTasks ==
    /\ pc = "scan"
    /\ idx > Len(cfgs)
    /\ tasks = <<>>
    /\ ret' = return_list(results, heap, 1)
    /\ pc' = "returned"
    /\ UNCHANGED <<cfgs, file, file_state, cache_writers, run, refresh, idx, heap, cache, results, tasks, pending,
                   done, log, prevOk, nonBuildVars>>

\* every task is submitted to the pool
Submit ==
    /\ pc = "scan"
    /\ idx > Len(cfgs)
    /\ tasks # <<>>
    /\ pending' = {tasks[k] : k \in 1..Len(tasks)}
    /\ pc' = "pool"
    /\ UNCHANGED <<cfgs, file, file_state, cache_writers, run, refresh, idx, heap, cache, results, tasks, done, log,
                   ret, prevOk, nonBuildVars>>

\* Threads: 0 is the thread that called build_all, i > 0 the pool thread
\* that runs the task of config i.
MainThread == 0

\* `cache[key] = entry` done by the pool thread of the task
cache_writer_is_worker(i) == i

\* `cache[key] = entry` is a statement of the as_completed loop, which the
\* caller of build_all runs
cache_writer(i) == MainThread

\* as_completed yields the future of config i, and fut.result() returns
TaskSucceeds(i) ==
    /\ pc = "pool"
    /\ i \in pending
    /\ \E e \in built_entries(cfgs[i], run) :
        /\ heap' = [heap EXCEPT ![TaskObj(i)] = e]
        /\ results' = results_put(results, i, TaskObj(i))
        /\ cache' = [cache EXCEPT ![cache_key_from_cfg(cfgs[i])] = TaskObj(i)]
    /\ cache_writers' = cache_writers \cup {cache_writer(i)}
    /\ log' = [log EXCEPT ![i] = "built"]
    /\ pending' = pending \ {i}
    /\ done' = Append(done, i)
    /\ UNCHANGED <<cfgs, file, file_state, run, refresh, pc, idx, tasks, ret, prevOk, nonBuildVars>>

\* fut.result() raises and nothing catches it: the exception leaves the
\* as_completed loop and the build ends with what it has
TaskFails_uncaught(i) ==
    /\ pc = "pool"
    /\ i \in pending
    /\ log' = [log EXCEPT ![i] = "failed"]
    /\ ret' = return_list(results, heap, 1)
    /\ pc' = "returned"
    /\ UNCHANGED <<cfgs, file, file_state, cache_writers, run, refresh, idx, heap, cache, results, tasks, pending,
                   done, prevOk, nonBuildVars>>

\* as_completed yields the future of config i, and fut.result() raises
TaskFails(i) ==
    /\ pc = "pool"
    /\ i \in pending
    /\ LET key == cache_key_from_cfg(cfgs[i])
       IN  IF stale_fallback(refresh, cache, heap, key)
           THEN /\ heap' = [heap EXCEPT ![cache[key]].name = cfgs[i].name]
                /\ results' = results_put(results, i, cache[key])
                /\ log' = [log EXCEPT ![i] = "fallback"]
           ELSE /\ log' = [log EXCEPT ![i] = "failed"]
                /\ UNCHANGED <<heap, results>>
    /\ pending' = pending \ {i}
    /\ done' = Append(done, i)
    /\ UNCHANGED <<cfgs, file, file_state, cache_writers, run, refresh, pc, idx, cache, tasks, ret, prevOk, nonBuildVars>>

\* the pool is left as soon as one future is done
Return_after_first_done ==
    /\ pc = "pool"
    /\ done # <<>>
    /\ ret' = return_list(results, heap, 1)
    /\ pc' = "returned"
    /\ UNCHANGED <<cfgs, file, file_state, cache_writers, run, refresh, idx, heap, cache, results, tasks, pending,
                   done, log, prevOk, nonBuildVars>>

\* the pool is shut down with every future done; the list is returned
Return ==
    /\ pc = "pool"
    /\ pending = {}
    /\ ret' = return_list(results, heap, 1)
    /\ pc' = "returned"
    /\ UNCHANGED <<cfgs, file, file_state, cache_writers, run, refresh, idx, heap, cache, results, tasks, pending,
                   done, log, prevOk, nonBuildVars>>

\* the returned list appended to the file's previous content
Write_appending ==
    /\ pc = "returned"
    /\ file' = file \o [k \in 1..Len(ret) |-> ret[k].e]
    /\ file_state' = "list"
    /\ prevOk' = \A k \in 1..Len(tasks) : log[tasks[k]] = "built"
    /\ pc' = "idle"
    /\ UNCHANGED <<cfgs, cache_writers, run, refresh, idx, heap, cache, results, tasks, pending, done,
                   log, ret, nonBuildVars>>

\* write_market_token_pairs_json(results, out_path): the file is rewritten
\* with the returned list
Write ==
    /\ pc = "returned"
    /\ file' = [k \in 1..Len(ret) |-> ret[k].e]
    /\ file_state' = "list"
    /\ prevOk' = \A k \in 1..Len(tasks) : log[tasks[k]] = "built"
    /\ pc' = "idle"
    /\ UNCHANGED <<cfgs, cache_writers, run, refresh, idx, heap, cache, results, tasks, pending, done,
                   log, ret, nonBuildVars>>

NextBuild ==
    \/ StartRun
    \/ Scan
    \/ ReturnNoTasks
    \/ Submit
    \/ \E i \in 1..MaxCfg : TaskSucceeds(i)
    \/ \E i \in 1..MaxCfg : TaskFails(i)
    \/ Return
    \/ Write

SpecBuild == InitBuild /\ [][NextBuild]_vars

(***************************************************************************)
(* Claims about build_all                                                  *)
(***************************************************************************)
InBuild == pc \in {"scan", "pool", "returned"}
TaskSet == {tasks[k] : k \in 1..Len(tasks)}
RetFor(i) == {k \in 1..Len(ret) : ret[k].src = i}
RetEntries == [k \in 1..Len(ret) |-> ret[k].e]
SameButName(e1, e2) == [e1 EXCEPT !.name = ""] = [e2 EXCEPT !.name = ""]
TaskFailed(i) == log[i] \in {"failed", "fallback"}
\* the positions of the persisted registry that hold a usable entry of config i's key
UsablePrior(i) ==
    {p \in 1..Len(file) :
        /\ cache_key_from_entry(file[p]) = cache_key_from_cfg(cfgs[i])
        /\ entry_is_usable(file[p])}
\* the object load_cache keeps for config i's key (0: none)
Loaded(i) == load_cache(file)[cache_key_from_cfg(cfgs[i])]

\* C1: when build_all has returned, every config whose build task failed has
\* the usable prior entry of its cache key in the output if the persisted
\* registry holds one, and has no entry in the output otherwise; for
\* refresh=False and for refresh=True.
C1_FailedTaskKeepsUsablePrior ==
    pc = "returned" =>
        \A i \in 1..Len(cfgs) :
            TaskFailed(i) =>
                IF UsablePrior(i) # {}
                THEN \E k \in RetFor(i) : \E p \in UsablePrior(i) :
                        SameButName(ret[k].e, file[p])
                ELSE RetFor(i) = {}

\* C2: a config that raises (in the key computation or in its task) does not
\* abort the batch: when build_all has returned, every config has been
\* processed to its end, and every cache hit and every successful build has
\* its entry in the output.
C2_FailureDoesNotAbortBatch ==
    pc = "returned" =>
        \A i \in 1..Len(cfgs) :
            /\ log[i] \in {"keyerr", "hit", "built", "fallback", "failed"}
            /\ log[i] \in {"hit", "built"} => RetFor(i) # {}

C2_Witness ==
    /\ pc = "returned"
    /\ \E i, j \in 1..Len(cfgs) :
        /\ log[i] \in {"keyerr", "failed"}
        /\ log[j] = "built"
        /\ RetFor(j) # {}

\* C3: with refresh=False, a config whose key maps to a usable cached entry is
\* served by the scan: it never becomes a task and its result is the cached
\* object, returned with the cached content.
C3_UsableCachedEntryIsHit ==
    \A i \in 1..Len(cfgs) :
        (/\ InBuild /\ ~refresh /\ i < idx
         /\ ~cache_key_raises(cfgs[i])
         /\ Loaded(i) # 0
         /\ entry_is_usable(file[Loaded(i)]))
        => /\ i \notin TaskSet
           /\ log[i] = "hit"
           /\ results[i].obj = Loaded(i)
           /\ SameButName(heap[Loaded(i)], file[Loaded(i)])
           /\ pc = "returned" =>
                \E k \in RetFor(i) : SameButName(ret[k].e, file[Loaded(i)])

C3_Witness ==
    /\ pc = "returned" /\ ~refresh
    /\ \E i \in 1..Len(cfgs) : log[i] = "hit" /\ RetFor(i) # {}
    /\ \E j \in 1..Len(cfgs) : log[j] = "built"

\* C4: a registry written by a build whose tasks all succeeded, rebuilt with
\* refresh=False under the same configuration, dispatches no task and returns
\* entries equal to the persisted ones.
C4_CacheRoundTrip ==
    (pc = "returned" /\ run >= 2 /\ prevOk /\ ~refresh)
        => (tasks = <<>> /\ RetEntries = file)

\* C5: an entry of another schema version is never usable: the config of its
\* key becomes a build task, and no result of the build, cache hit or stale
\* fallback, is an entry of another version.
C5_OtherSchemaVersionNeverUsable ==
    InBuild =>
        /\ \A i \in 1..Len(cfgs) :
            /\ (/\ i < idx
                /\ ~cache_key_raises(cfgs[i])
                /\ \E p \in 1..Len(file) :
                    /\ cache_key_from_entry(file[p]) = cache_key_from_cfg(cfgs[i])
                    /\ file[p].sv # SCHEMA_VERSION)
               => i \in TaskSet
            /\ results[i].obj # 0 => heap[results[i].obj].sv = SCHEMA_VERSION
        /\ \A k \in 1..Len(ret) : ret[k].e.sv = SCHEMA_VERSION

C5_Witness ==
    /\ pc = "returned" /\ ~refresh
    /\ \E i \in 1..Len(cfgs) : \E p \in 1..Len(file) :
        /\ cache_key_from_entry(file[p]) = cache_key_from_cfg(cfgs[i])
        /\ file[p].sv # SCHEMA_VERSION
        /\ file[p].ok
        /\ log[i] = "failed"

\* C6: the returned list is in configuration order: of two entries, the one
\* produced for the earlier config comes first, whatever the completion order.
C6_ConfigurationOrderPreserved ==
    pc = "returned" =>
        \A k1, k2 \in 1..Len(ret) : k1 < k2 => ret[k1].src < ret[k2].src

C6_Witness ==
    /\ pc = "returned"
    /\ Len(ret) >= 2
    /\ \E a, b \in 1..Len(done) :
        a < b /\ done[a] > done[b] /\ log[done[a]] = "built" /\ log[done[b]] = "built"


(***************************************************************************)
(* build_entry_from_urls, categorical branch: key sets, scores, the greedy *)
(* matcher, the unmatched lists                                            *)
(***************************************************************************)
\* The outcome labels of the model.
OpTitles == {"Increase", "Increase rates"}
PmCandidates == {"Increase", "Increase rates", "Decrease"}
\* labels of generic placeholder outcomes
PlaceholderLabels == {"Game C", "Another game"}

\* _norm_text on the labels of the model: lower case, punctuation to spaces,
\* white space collapsed
norm_text(s) ==
    CASE s = "Increase" -> "increase"
      [] s = "Increase rates" -> "increase rates"
      [] s = "Decrease" -> "decrease"
      [] s = "Game C" -> "game c"
      [] s = "Another game" -> "another game"
      [] s = "No change" -> "no change"
      [] s = "25 bps decrease" -> "25 bps decrease"
      [] s = "25 bps increase" -> "25 bps increase"
      [] s = "Fed holds rates" -> "fed holds rates"
      [] s = "!!!" -> ""
      [] OTHER -> ""

\* _strip_rate_words on normalised text
strip_rate_words(k) ==
    CASE k = "increase rates" -> "increase"
      [] k = "fed holds rates" -> "fed holds"
      [] OTHER -> k

\* Steps 1-7 of _make_keys for one text: the normalised text, its
\* comma-stripped and year-stripped variants (equal to it for these labels),
\* and the rate-word-stripped variant of each; the labels hold no month-day,
\* fewer than three digits, no compact number, no range and no threshold
\* ("25 bps" is followed by no direction word).
text_keys(raw) ==
    IF raw = "" THEN {}
    ELSE LET base == norm_text(raw)
             ks == IF base = "" THEN {} ELSE {base}
         IN  ks \cup {strip_rate_words(k) : k \in ks}

\* re.fullmatch(r"(increase|decrease)(\s+rates?)?", k0)
RateWord(k) ==
    CASE k \in {"increase", "increase rate", "increase rates"} -> "increase"
      [] k \in {"decrease", "decrease rate", "decrease rates"} -> "decrease"
      [] OTHER -> ""

\* _make_keys(label, extra_text)
make_keys(label, extra_text) ==
    IF label = "" /\ extra_text = "" THEN {}
    ELSE LET k7 == text_keys(label) \cup text_keys(extra_text)
             k8 == k7 \cup {RateWord(k) : k \in {x \in k7 : RateWord(x) # ""}}
                      \cup (IF k7 \cap {"hold", "no change", "unchanged", "nochange"} # {}
                            THEN {"hold", "no change"} ELSE {})
             k9a == k8 \cup (IF "another game" \in k8 \/ "another" \in k8
                             THEN {"other"} ELSE {})
             k9 == k9a \cup (IF "other" \in k9a THEN {"another game"} ELSE {})
         IN  {k \in k9 : k # ""}

\* What a fingerprint is made of: a direction and a number of d1 digits
\* ("ge_100"), a number of d1 digits, a range of a d1-digit and a d2-digit
\* number as _extract_range writes it, a month name and a day, or words.
\* Every fingerprint of the labels above is a plain word sequence.
KeyForm(k) ==
    CASE k = "ge_100" -> [form |-> "dir", d1 |-> 3, d2 |-> 0]
      [] k = "ge_5" -> [form |-> "dir", d1 |-> 1, d2 |-> 0]
      [] k = "150" -> [form |-> "num", d1 |-> 3, d2 |-> 0]
      [] k = "42" -> [form |-> "num", d1 |-> 2, d2 |-> 0]
      [] k = "280-295" -> [form |-> "range", d1 |-> 3, d2 |-> 3]
      [] k = "0-24" -> [form |-> "range", d1 |-> 1, d2 |-> 2]
      [] k = "december 15" -> [form |-> "monthday", d1 |-> 2, d2 |-> 0]
      [] OTHER -> [form |-> "words", d1 |-> 0, d2 |-> 0]

\* The shape of a fingerprint, as the regular expressions of _key_weight see
\* it: ^(ge|gt|le|lt)_\d{2,}$, ^\d{3,}$, ^\d{2,}-\d{2,}$, ^(month)\s+\d{1,2}$
KeyShape(k) ==
    LET f == KeyForm(k)
    IN  IF f.form = "dir" /\ f.d1 >= 2 THEN "threshold"
        ELSE IF f.form = "num" /\ f.d1 >= 3 THEN "digits3"
        ELSE IF f.form = "range" /\ f.d1 >= 2 /\ f.d2 >= 2 THEN "range"
        ELSE IF f.form = "monthday" /\ f.d1 >= 1 /\ f.d1 <= 2 THEN "monthday"
        ELSE "words"

\* every fingerprint weighing nothing
key_weight_zero(k) == 0

\* _key_weight
key_weight(k) ==
    IF k = "" THEN 0
    ELSE IF KeyShape(k) = "threshold" THEN 12
    ELSE IF KeyShape(k) = "digits3" THEN 10
    ELSE IF KeyShape(k) = "range" THEN 9
    ELSE IF KeyShape(k) = "monthday" THEN 7
    ELSE IF k \in {"increase", "decrease", "hold", "no change"} THEN 3
    ELSE IF k \in {"yes", "no"} THEN 2
    ELSE 1

RECURSIVE score_keys(_)
\* _score_keys: sum of the weights
score_keys(ks) ==
    IF ks = {} THEN 0
    ELSE LET k == CHOOSE x \in ks : TRUE
         IN  key_weight(k) + score_keys(ks \ {k})

\* _is_placeholder_candidate with no pattern at all
is_placeholder_candidate_never(name) == FALSE

\* _is_placeholder_candidate on the labels of the model:
\* re.fullmatch(r"(Game|Movie|Team|Option|Candidate|Player|Item)\s+[A-Z]", n)
\* or re.search(r"\banother game\b", n), both ignoring case
is_placeholder_candidate(name) ==
    \/ name \in {"Game C"}
    \/ name \in {"Another game"}

\* re.search(r"\banother\s+game\b", candidate), ignoring case
another_s_game(name) == name \in {"Another game"}

\* A side-A child as opinion_fetch_categorical_children returns it:
\* market_id 0 is a missing marketId; tok says that yes_token_id and
\* no_token_id are both set. One child has a placeholder's label.
OpChild(m, t, k) == [market_id |-> m, title |-> t, tok |-> k]
OpChildren ==
    {OpChild(m, "Increase", TRUE) : m \in 0..1}
    \cup {OpChild(m, "Increase rates", TRUE) : m \in 1..2}
    \cup {OpChild(1, "Increase", FALSE), OpChild(1, "Game C", TRUE)}

\* A side-B market as gamma_event_to_candidate_markets returns it: market_id 0
\* is the empty string of a missing id; tok says that yes_token_id and
\* no_token_id are set (gamma_parse_yes_no_from_market sets both or none);
\* placeholders have been filtered out.
PmMarket(m, c, t) ==
    [market_id |-> m, question |-> "", candidate |-> c, tok |-> t, placeholder |-> FALSE]
PmMarkets ==
    {PmMarket(m, "Increase", TRUE) : m \in 0..2}
    \cup {PmMarket(m, "Increase rates", TRUE) : m \in 1..2}
    \cup {PmMarket(1, "Decrease", TRUE), PmMarket(1, "Increase", FALSE)}

\* A market of the event as the Gamma API returns it; candidate is the label
\* lines 845-848 derive from groupItemTitle or the question.
EventMarket(m, c, t) == [market_id |-> m, question |-> "", candidate |-> c, tok |-> t]
EventMarkets ==
    {EventMarket(x.market_id, x.candidate, x.tok) : x \in PmMarkets}
    \cup {EventMarket(1, "Game C", TRUE), EventMarket(2, "Another game", TRUE)}

\* the parsed market with its placeholder mark
parsed_market(m) ==
    [market_id |-> m.market_id, question |-> m.question, candidate |-> m.candidate,
     tok |-> m.tok,
     placeholder |-> (is_placeholder_candidate(m.candidate) \/ another_s_game(m.candidate))]

\* gamma_event_to_candidate_markets: the parsed markets that are no
\* placeholders, in the event's order
gamma_event_to_candidate_markets(markets) ==
    SelectSeq([j \in 1..Len(markets) |-> parsed_market(markets[j])],
              LAMBDA x : ~x.placeholder)

\* op_items: one item per child, in order (a is the position in op_children)
op_items(children) ==
    [a \in 1..Len(children) |->
        [child |-> children[a],
         keys |-> make_keys(children[a].title, ""),
         norm |-> norm_text(children[a].title),
         a |-> a]]

RECURSIVE pm_items_from(_, _)
\* pm_items: one item per market that is no placeholder, in order (b is the
\* position in pm_candidate_markets)
pm_items_from(markets, b) ==
    IF b > Len(markets) THEN <<>>
    ELSE IF markets[b].placeholder THEN pm_items_from(markets, b + 1)
    ELSE <<[m |-> markets[b],
            keys |-> make_keys(markets[b].candidate, markets[b].question),
            norm |-> norm_text(markets[b].candidate),
            b |-> b]>> \o pm_items_from(markets, b + 1)

pm_items(markets) == pm_items_from(markets, 1)

\* the tie-break taken by `>=`: every tied candidate replaces the best one
replaces_best_on_any_tie(score, best_score, it, cand) ==
    score >= best_score

\* `score > best_score or (score == best_score and it["norm"] and
\*  it["norm"] == cand["norm"])`
replaces_best(score, best_score, it, cand) ==
    \/ score > best_score
    \/ (score = best_score /\ it.norm # "" /\ it.norm = cand.norm)

RECURSIVE best_pm(_, _, _, _, _, _)
\* the loop `for cand in pm_items` for one side-A item: the position in items
\* of best_pm when the loop ends (0: None)
best_pm(it, items, used, j, best, best_score) ==
    IF j > Len(items) THEN best
    ELSE LET cand == items[j]
             pm == cand.m
             inter == it.keys \cap cand.keys
             score == score_keys(inter)
         IN  IF pm.market_id = 0 \/ pm.market_id \in used
             THEN best_pm(it, items, used, j + 1, best, best_score)
             ELSE IF ~pm.tok
             THEN best_pm(it, items, used, j + 1, best, best_score)
             ELSE IF inter = {}
             THEN best_pm(it, items, used, j + 1, best, best_score)
             ELSE IF replaces_best(score, best_score, it, cand)
             THEN best_pm(it, items, used, j + 1, j, score)
             ELSE best_pm(it, items, used, j + 1, best, best_score)

\* used_pm_market_ids.add with the add left out
used_add_forgotten(used, mid) == used

\* `used_pm_market_ids.add(best_pm["market_id"])`
used_add(used, mid) == used \cup {mid}

\* the pair appended for side-A item it and side-B item cand
make_pair(it, cand) ==
    [candidate |-> it.child.title,
     opinion |-> [market_id |-> it.child.market_id, tok |-> it.child.tok],
     polymarket |-> [market_id |-> cand.m.market_id,
                     question |-> cand.m.question,
                     candidate |-> cand.m.candidate,
                     tok |-> cand.m.tok],
     a |-> it.a,
     b |-> cand.b]

RECURSIVE unmatched_opinion_from(_, _, _)
\* the loop `for c in op_children` after matching
unmatched_opinion_from(children, matched_op_ids, a) ==
    IF a > Len(children) THEN <<>>
    ELSE IF children[a].market_id \notin matched_op_ids
    THEN <<[market_id |-> children[a].market_id, candidate |-> children[a].title,
            tok |-> children[a].tok, a |-> a]>>
         \o unmatched_opinion_from(children, matched_op_ids, a + 1)
    ELSE unmatched_opinion_from(children, matched_op_ids, a + 1)

RECURSIVE unmatched_polymarket_from(_, _, _)
\* the loop `for cand in pm_items` after matching
unmatched_polymarket_from(items, used, j) ==
    IF j > Len(items) THEN <<>>
    ELSE LET pm == items[j].m
         IN  IF pm.market_id = 0 \/ pm.market_id \in used
             THEN unmatched_polymarket_from(items, used, j + 1)
             ELSE IF pm.placeholder
             THEN unmatched_polymarket_from(items, used, j + 1)
             ELSE IF is_placeholder_candidate(pm.candidate)
             THEN unmatched_polymarket_from(items, used, j + 1)
             ELSE <<[market_id |-> pm.market_id, question |-> pm.question,
                     candidate |-> pm.candidate, tok |-> pm.tok, b |-> items[j].b]>>
                  \o unmatched_polymarket_from(items, used, j + 1)

BuildIdle ==
    /\ cfgs = <<>> /\ file = <<>> /\ file_state = "absent" /\ run = 0 /\ refresh = FALSE /\ pc = "off"
    /\ idx = 1 /\ heap = EmptyHeap /\ cache = EmptyCache /\ results = <<>>
    /\ tasks = <<>> /\ pending = {} /\ done = <<>> /\ log = <<>> /\ ret = <<>>
    /\ prevOk = FALSE /\ cache_writers = {}

\* both providers have answered and gamma_event_to_candidate_markets has
\* parsed the event; pairs and used_pm_market_ids are empty
InitMatch ==
    /\ EndDateIdle
    /\ WeightIdle
    /\ LookupIdle
    /\ PruneIdle
    /\ KeysIdle
    /\ BuildIdle
    /\ LimiterIdle
    /\ RetryIdle
    /\ mpc = "match"
    /\ op_children \in SeqsUpTo(OpChildren, MaxOp)
    /\ event_markets \in SeqsUpTo(EventMarkets, MaxPm)
    /\ pm_markets = gamma_event_to_candidate_markets(event_markets)
    /\ m_i = 1
    /\ used_pm_market_ids = {}
    /\ pairs = <<>>
    /\ entry = NoLists

\* one iteration of `for it in op_items`
MatchStep ==
    /\ mpc = "match"
    /\ m_i <= Len(op_children)
    /\ LET it == op_items(op_children)[m_i]
           items == pm_items(pm_markets)
           best == best_pm(it, items, used_pm_market_ids, 1, 0, 0)
       IN  IF best # 0
           THEN /\ used_pm_market_ids' =
                       used_add(used_pm_market_ids, items[best].m.market_id)
                /\ pairs' = Append(pairs, make_pair(it, items[best]))
           ELSE UNCHANGED <<used_pm_market_ids, pairs>>
    /\ m_i' = m_i + 1
    /\ UNCHANGED <<nonMatchVars, mpc, op_children, event_markets, pm_markets,
                   entry>>

\* the two unmatched lists are built and the entry is returned
FinishEntry ==
    /\ mpc = "match"
    /\ m_i > Len(op_children)
    /\ LET matched_op_ids == {pairs[k].opinion.market_id : k \in 1..Len(pairs)}
       IN  entry' =
             [pairs |-> pairs,
              unmatched_opinion |-> unmatched_opinion_from(op_children, matched_op_ids, 1),
              unmatched_polymarket |->
                  unmatched_polymarket_from(pm_items(pm_markets), used_pm_market_ids, 1)]
    /\ mpc' = "built"
    /\ UNCHANGED <<nonMatchVars, op_children, event_markets, pm_markets, m_i,
                   used_pm_market_ids, pairs>>

NextMatch == MatchStep \/ FinishEntry

SpecMatch == InitMatch /\ [][NextMatch]_vars

(***************************************************************************)
(* Claims about the matcher and the unmatched lists                        *)
(***************************************************************************)
SetMax(S) == CHOOSE x \in S : \A y \in S : y <= x
SetMin(S) == CHOOSE x \in S : \A y \in S : x <= y
\* the overlap score of side-A item it and side-B item cand
Score(it, cand) == score_keys(it.keys \cap cand.keys)
PairsOf(a) == {k \in 1..Len(pairs) : pairs[k].a = a}
\* the side-B position paired with side-A item a (0: a is not paired)
Chosen(a) == IF PairsOf(a) = {} THEN 0 ELSE pairs[SetMin(PairsOf(a))].b
\* what the earlier side-A items have taken, as positions and as market ids
TakenBefore(a) == {pairs[k].b : k \in {x \in 1..Len(pairs) : pairs[x].a < a}}
IdsTakenBefore(a) ==
    {pairs[k].polymarket.market_id : k \in {x \in 1..Len(pairs) : pairs[x].a < a}}
\* the positions of P with the highest score for it, and those of P whose
\* normalised label is it's
BestOf(it, items, P) ==
    LET sc == [j \in P |-> Score(it, items[j])]
    IN  {j \in P : \A q \in P : sc[q] <= sc[j]}
NormEqual(it, items, P) == {j \in P : it.norm # "" /\ it.norm = items[j].norm}
\* every side-B market has an id of its own and both trade identifiers
WellFormedPm ==
    /\ \A j \in 1..Len(pm_markets) : pm_markets[j].market_id # 0 /\ pm_markets[j].tok
    /\ \A j, q \in 1..Len(pm_markets) :
        j # q => pm_markets[j].market_id # pm_markets[q].market_id

\* C7: no side-B outcome is in two pairs: the pairs made so far, and those of
\* the entry returned, are pairwise of different side-B markets and of
\* different side-B market ids.
C7_NoDoubleUse ==
    /\ \A k1, k2 \in 1..Len(pairs) :
        k1 < k2 => /\ pairs[k1].b # pairs[k2].b
                   /\ pairs[k1].polymarket.market_id # pairs[k2].polymarket.market_id
    /\ mpc = "built" => entry.pairs = pairs

\* a later side-A item scores strictly higher on a market an earlier item took
\* than on the market it is paired with
C7_Witness ==
    /\ mpc = "built"
    /\ LET ops == op_items(op_children)
           items == pm_items(pm_markets)
       IN  \E k1, k2 \in 1..Len(entry.pairs) :
            /\ k1 < k2
            /\ Score(ops[pairs[k2].a], items[pairs[k1].b])
                 > Score(ops[pairs[k2].a], items[pairs[k2].b])

\* the pick the claim describes: the highest score among the side-B items no
\* earlier item has taken; on a tie one with an equal normalised label if
\* there is one; of several, the first in side-B order
ClaimedPick(it, items, taken) ==
    LET P == {j \in 1..Len(items) : items[j].b \notin taken /\ Score(it, items[j]) > 0}
        T == BestOf(it, items, P)
        E == NormEqual(it, items, T)
    IN  IF P = {} THEN 0
        ELSE IF E # {} THEN items[SetMin(E)].b
        ELSE items[SetMin(T)].b

\* C8 as claimed, on side-B lists whose markets all have an id of their own
\* and both trade identifiers: every side-A item processed is paired with the
\* highest-scoring market not yet taken, ties going to an equal normalised
\* label and then to the first in side-B order.
C8_PicksFirstOfTiedEqualLabels ==
    WellFormedPm =>
        LET ops == op_items(op_children)
            items == pm_items(pm_markets)
        IN  \A a \in 1..(m_i - 1) :
                Chosen(a) = ClaimedPick(ops[a], items, TakenBefore(a))

\* the markets the code can pair with it: those with an id that no earlier
\* pair holds, both trade identifiers and a common fingerprint
EligibleFor(it, items, ids) ==
    {j \in 1..Len(items) :
        /\ items[j].m.market_id # 0
        /\ items[j].m.market_id \notin ids
        /\ items[j].m.tok
        /\ it.keys \cap items[j].keys # {}}

\* the pick of the code: the highest score among the eligible markets; on a
\* tie the last one in side-B order with an equal normalised label, and the
\* first one in side-B order if none has an equal label
AmendedPick(it, items, ids) ==
    LET P == EligibleFor(it, items, ids)
        T == BestOf(it, items, P)
        E == NormEqual(it, items, T)
    IN  IF P = {} THEN 0
        ELSE IF E # {} THEN items[SetMax(E)].b
        ELSE items[SetMin(T)].b

\* C8 (amended): every side-A item processed is paired with the
\* highest-scoring eligible side-B market (one with an id not yet used, both
\* trade identifiers and a common fingerprint); among the markets tied on that
\* score the last one in side-B order whose normalised label equals the side-A
\* item's, and the first one in side-B order if no tied label is equal; with no
\* eligible market the item is not paired.
C8_PicksBestEligible ==
    LET ops == op_items(op_children)
        items == pm_items(pm_markets)
    IN  \A a \in 1..(m_i - 1) :
            Chosen(a) = AmendedPick(ops[a], items, IdsTakenBefore(a))

\* a tie on the highest score between two markets with the side-A item's label
C8_Witness ==
    /\ mpc = "built"
    /\ LET ops == op_items(op_children)
           items == pm_items(pm_markets)
       IN  \E a \in 1..Len(op_children) :
            LET P == EligibleFor(ops[a], items, IdsTakenBefore(a))
            IN  /\ Cardinality(NormEqual(ops[a], items, BestOf(ops[a], items, P))) >= 2
                /\ Chosen(a) = AmendedPick(ops[a], items, IdsTakenBefore(a))
                /\ Chosen(a) # 0

\* C9: every side-A outcome is in exactly one of pairs and unmatched_opinion,
\* so the two lists together are as long as the side-A list, also with missing
\* or repeated side-A ids.
C9_SideAPreserved ==
    mpc = "built" =>
        /\ Len(entry.pairs) + Len(entry.unmatched_opinion) = Len(op_children)
        /\ \A a \in 1..Len(op_children) :
            Cardinality({k \in 1..Len(entry.pairs) : entry.pairs[k].a = a})
            + Cardinality({k \in 1..Len(entry.unmatched_opinion) :
                              entry.unmatched_opinion[k].a = a}) = 1

\* C10: every side-B outcome that is no placeholder is in exactly one of pairs
\* and unmatched_polymarket, also without a common fingerprint, without both
\* trade identifiers or without an id.
C10_SideBPreserved ==
    mpc = "built" =>
        \A b \in 1..Len(pm_markets) :
            (~pm_markets[b].placeholder /\ ~is_placeholder_candidate(pm_markets[b].candidate))
            => Cardinality({k \in 1..Len(entry.pairs) : entry.pairs[k].b = b})
               + Cardinality({k \in 1..Len(entry.unmatched_polymarket) :
                                 entry.unmatched_polymarket[k].b = b}) = 1

\* C11: a side-B outcome with a placeholder label is in no pair, neither while
\* the matcher runs nor in the entry returned, and is not in the unmatched
\* side-B list of the entry returned.
C11_PlaceholdersNeverEmitted ==
    /\ \A k \in 1..Len(pairs) : pairs[k].polymarket.candidate \notin PlaceholderLabels
    /\ mpc = "built" =>
        /\ \A k \in 1..Len(entry.pairs) :
            entry.pairs[k].polymarket.candidate \notin PlaceholderLabels
        /\ \A k \in 1..Len(entry.unmatched_polymarket) :
            entry.unmatched_polymarket[k].candidate \notin PlaceholderLabels

\* the event holds a tradeable placeholder market whose label is a side-A
\* child's title, and that child is left unmatched
C11_Witness ==
    /\ mpc = "built"
    /\ \E j \in 1..Len(event_markets), a \in 1..Len(op_children) :
        /\ event_markets[j].candidate \in PlaceholderLabels
        /\ event_markets[j].market_id # 0
        /\ event_markets[j].tok
        /\ op_children[a].title = event_markets[j].candidate
        /\ \E k \in 1..Len(entry.unmatched_opinion) : entry.unmatched_opinion[k].a = a

\* C12: every pair, while the matcher runs and in the entry returned, has both
\* trade identifiers of its side-A outcome and both of its side-B outcome.
C12_PairsCarryTradeIds ==
    /\ \A k \in 1..Len(pairs) : pairs[k].opinion.tok /\ pairs[k].polymarket.tok
    /\ mpc = "built" =>
        \A k \in 1..Len(entry.pairs) :
            entry.pairs[k].opinion.tok /\ entry.pairs[k].polymarket.tok

\* C34: a side-A item processed is left without a pair exactly when no
\* eligible side-B market (an id not yet used, both trade identifiers) has a
\* fingerprint in common with it; no common fingerprint scores 0, any common
\* fingerprint scores more than 0, and the market paired is an eligible one.
C34_UnmatchedIffNoOverlap ==
    LET ops == op_items(op_children)
        items == pm_items(pm_markets)
    IN  \A a \in 1..(m_i - 1) :
            LET E == EligibleFor(ops[a], items, IdsTakenBefore(a))
            IN  /\ (Chosen(a) = 0) <=> (E = {})
                /\ Chosen(a) # 0 => \E j \in E : items[j].b = Chosen(a)
                /\ \A j \in 1..Len(items) :
                    (ops[a].keys \cap items[j].keys = {}) <=> (Score(ops[a], items[j]) = 0)

\* one side-A item is paired through a common fingerprint under different
\* labels, and a later one is left without a pair although a market shares a
\* fingerprint with it: that market is taken
C34_Witness ==
    /\ mpc = "built"
    /\ LET ops == op_items(op_children)
           items == pm_items(pm_markets)
       IN  \E a1, a2 \in 1..Len(op_children) :
            /\ a1 < a2
            /\ Chosen(a1) # 0
            /\ \E j \in 1..Len(items) :
                items[j].b = Chosen(a1) /\ items[j].norm # ops[a1].norm
            /\ Chosen(a2) = 0
            /\ \E j \in 1..Len(items) :
                /\ ops[a2].keys \cap items[j].keys # {}
                /\ items[j].m.market_id \in IdsTakenBefore(a2)

(***************************************************************************)
(* HostRateLimiter.wait, called by several worker threads, each for the    *)
(* URLs of one host.                                                       *)
(* Time is the integer reading of time.monotonic(); it passes between any  *)
(* two steps of any thread.                                                *)
(***************************************************************************)
\* the caller's own reading of the clock, whatever the host's next-allowed time
Max2_now_only(x, y) == x

Max2(x, y) == IF x >= y THEN x ELSE y

InitLimiter ==
    /\ EndDateIdle
    /\ WeightIdle
    /\ LookupIdle
    /\ PruneIdle
    /\ KeysIdle
    /\ BuildIdle
    /\ MatchIdle
    /\ RetryIdle
    /\ interval \in 0..MaxInterval
    /\ clock = 0
    /\ next_allowed = [h \in Hosts |-> NoNext]
    /\ l_host = [w \in Workers |-> "a"]
    /\ last_slot = [h \in Hosts |-> NoNext]
    /\ lpc = [w \in Workers |-> "idle"]
    /\ lock = 0
    /\ l_now = [w \in Workers |-> 0]
    /\ l_scheduled = [w \in Workers |-> 0]
    /\ l_wake = [w \in Workers |-> 0]
    /\ l_calls = [w \in Workers |-> 0]
    /\ released = <<>>

\* time passes
Tick ==
    /\ lpc \in [Workers -> {"idle", "read", "in_lock", "locked", "sleep"}]
    /\ clock < MaxTime
    /\ clock' = clock + 1
    /\ UNCHANGED <<nonLimiterVars, l_host, last_slot, interval, next_allowed, lpc, lock,
                   l_now, l_scheduled,
                   l_wake, l_calls, released>>

\* only a negative interval taken as "no throttling"
unthrottled_negative_only(iv) == iv < 0

\* `if interval <= 0: return`
unthrottled(iv) == iv <= 0

\* the lock still held when the `with` block is left
lock_kept(w) == w

\* the end of the `with self._lock` block releases the lock
lock_after_with(w) == 0

\* wait is called: `if interval <= 0: return`, else `now = time.monotonic()`
WaitReadNow(w) ==
    /\ lpc[w] = "idle"
    /\ l_calls[w] < MaxCalls
    /\ l_calls' = [l_calls EXCEPT ![w] = @ + 1]
    /\ IF unthrottled(interval)
       THEN /\ released' = Append(released, clock)
            /\ UNCHANGED <<lpc, l_now>>
       ELSE /\ l_now' = [l_now EXCEPT ![w] = clock]
            /\ lpc' = [lpc EXCEPT ![w] = "read"]
            /\ UNCHANGED released
    /\ UNCHANGED <<nonLimiterVars, l_host, last_slot, interval, clock, next_allowed, lock,
                   l_scheduled, l_wake>>

\* the `with` block entered without waiting for the lock
WaitAcquire_unguarded(w) ==
    /\ lpc[w] = "read"
    /\ lock' = w
    /\ lpc' = [lpc EXCEPT ![w] = "in_lock"]
    /\ UNCHANGED <<nonLimiterVars, l_host, last_slot, interval, clock, next_allowed, l_now,
                   l_scheduled,
                   l_wake, l_calls, released>>

\* `with self._lock`: the lock is taken when it is free
WaitAcquire(w) ==
    /\ lpc[w] = "read"
    /\ lock = 0
    /\ lock' = w
    /\ lpc' = [lpc EXCEPT ![w] = "in_lock"]
    /\ UNCHANGED <<nonLimiterVars, l_host, last_slot, interval, clock, next_allowed, l_now,
                   l_scheduled,
                   l_wake, l_calls, released>>

\* the body of `with self._lock`, and its end
WaitLocked(w) ==
    /\ lpc[w] = "in_lock"
    /\ lock' = lock_after_with(w)
    /\ LET host == l_host[w]
           nxt == IF next_allowed[host] = NoNext THEN l_now[w] ELSE next_allowed[host]
           scheduled == Max2(l_now[w], nxt)
       IN  /\ l_scheduled' = [l_scheduled EXCEPT ![w] = scheduled]
           /\ next_allowed' = [next_allowed EXCEPT ![host] = scheduled + interval]
           /\ last_slot' = [last_slot EXCEPT ![host] = scheduled]
    /\ lpc' = [lpc EXCEPT ![w] = "locked"]
    /\ UNCHANGED <<nonLimiterVars, l_host, interval, clock, l_now, l_wake, l_calls,
                   released>>

\* `sleep_s = scheduled - now`; time.sleep(sleep_s) is entered if it is
\* positive, else wait returns
WaitSleep(w) ==
    /\ lpc[w] = "locked"
    /\ LET sleep_s == l_scheduled[w] - l_now[w]
       IN  IF sleep_s > 0
           THEN /\ l_wake' = [l_wake EXCEPT ![w] = clock + sleep_s]
                /\ lpc' = [lpc EXCEPT ![w] = "sleep"]
                /\ UNCHANGED released
           ELSE /\ released' = Append(released, clock)
                /\ lpc' = [lpc EXCEPT ![w] = "idle"]
                /\ UNCHANGED l_wake
    /\ UNCHANGED <<nonLimiterVars, l_host, last_slot, interval, clock, next_allowed, lock,
                   l_now,
                   l_scheduled, l_calls>>

\* time.sleep returns, no earlier than asked, and wait returns
WaitWake(w) ==
    /\ lpc[w] = "sleep"
    /\ clock >= l_wake[w]
    /\ released' = Append(released, clock)
    /\ lpc' = [lpc EXCEPT ![w] = "idle"]
    /\ UNCHANGED <<nonLimiterVars, l_host, last_slot, interval, clock, next_allowed, lock,
                   l_now,
                   l_scheduled, l_wake, l_calls>>

NextLimiter ==
    \/ Tick
    \/ \E w \in Workers : WaitReadNow(w)
    \/ \E w \in Workers : WaitAcquire(w)
    \/ \E w \in Workers : WaitLocked(w)
    \/ \E w \in Workers : WaitSleep(w)
    \/ \E w \in Workers : WaitWake(w)

SpecLimiter == InitLimiter /\ [][NextLimiter]_vars

\* C13: for a host with a positive minimum interval, any two returns of wait
\* are at least the interval apart in time.
C13_ReleasesIntervalApart ==
    interval > 0 =>
        \A i, j \in 1..Len(released) :
            i < j => released[j] - released[i] >= interval

\* the calls of wait begun, over all workers
RECURSIVE CallsBegun(_)
CallsBegun(W) ==
    IF W = {} THEN 0
    ELSE LET w == CHOOSE x \in W : TRUE IN l_calls[w] + CallsBegun(W \ {w})

\* C29: for a host whose minimum interval is zero, or that has none
\* configured, wait returns at once: no caller ever reads the clock, takes the
\* lock or sleeps, every call begun has returned, and the host's next-allowed
\* time is left as it was.
C29_ZeroIntervalReturnsAtOnce ==
    interval <= 0 =>
        /\ \A h \in Hosts : next_allowed[h] = NoNext
        /\ lock = 0
        /\ \A w \in Workers : lpc[w] = "idle"
        /\ Len(released) = CallsBegun(Workers)

\* every worker has made all its calls for an unthrottled host, while time
\* passed
C29_Witness ==
    /\ interval = 0
    /\ \A w \in Workers : l_calls[w] = MaxCalls
    /\ Len(released) = MaxCalls * Cardinality(Workers)
    /\ released[Len(released)] > 0
    /\ \A h \in Hosts : next_allowed[h] = NoNext

\* C30: the lock is held only while the next-allowed time is read and
\* advanced: a worker that holds it is inside the `with` block, so no worker
\* sleeps, or has returned to send its request, with the lock in its hands,
\* and a sleeping worker does not keep another one from scheduling.
C30_LockOnlyForScheduling ==
    \A w \in Workers :
        /\ lock = w => lpc[w] = "in_lock"
        /\ lpc[w] \in {"locked", "sleep", "idle"} => lock # w
        /\ (lpc[w] = "sleep" /\ \E v \in Workers : lpc[v] = "read") =>
               \E v \in Workers : ENABLED WaitAcquire(v)

\* one worker sleeps while the other one holds the lock for its own
\* scheduling decision
C30_Witness ==
    \E w, v \in Workers :
        /\ w # v
        /\ lpc[w] = "sleep"
        /\ lpc[v] = "in_lock"
        /\ lock = v

\* the limiter used for the URLs of two hosts, each worker requesting from one
\* of them; every host of the model has the same minimum interval
InitHosts ==
    /\ PruneIdle
    /\ KeysIdle
    /\ LookupIdle
    /\ WeightIdle
    /\ EndDateIdle
    /\ BuildIdle
    /\ MatchIdle
    /\ RetryIdle
    /\ interval \in 0..MaxInterval
    /\ clock = 0
    /\ next_allowed = [h \in Hosts |-> NoNext]
    /\ l_host \in {f \in [Workers -> Hosts] : f[1] = "a"}
    /\ last_slot = [h \in Hosts |-> NoNext]
    /\ lpc = [w \in Workers |-> "idle"]
    /\ lock = 0
    /\ l_now = [w \in Workers |-> 0]
    /\ l_scheduled = [w \in Workers |-> 0]
    /\ l_wake = [w \in Workers |-> 0]
    /\ l_calls = [w \in Workers |-> 0]
    /\ released = <<>>

SpecHosts == InitHosts /\ [][NextLimiter]_vars

\* a step leaves every host's next-allowed time as it is or moves it forward;
\* it moves only the one of the host whose slot a worker takes in that step,
\* and that slot is at least the interval after the host's previous one (so
\* the slots of a host, in the order handed out, are pairwise that far apart)
NextAllowedStep ==
    \A h \in Hosts :
        /\ next_allowed[h] # NoNext =>
              (next_allowed'[h] # NoNext /\ next_allowed'[h] >= next_allowed[h])
        /\ next_allowed'[h] # next_allowed[h] =>
              \E w \in Workers :
                  /\ l_host[w] = h /\ lpc[w] = "in_lock" /\ lpc'[w] = "locked"
                  /\ last_slot'[h] = l_scheduled'[w]
                  /\ next_allowed'[h] = last_slot'[h] + interval
                  /\ last_slot[h] # NoNext => last_slot'[h] - last_slot[h] >= interval
        /\ last_slot'[h] # last_slot[h] => next_allowed'[h] = last_slot'[h] + interval

\* C37: with a positive interval the slots handed out for one host are
\* pairwise at least the interval apart under every interleaving; a host's
\* next-allowed time never decreases; and a wait for one host leaves the
\* next-allowed time of every other host as it is.
C37_SlotsApartAndMonotone == [][interval > 0 => NextAllowedStep]_vars

\* the two workers are on different hosts and each has taken its last slot,
\* later than its own reading of the clock allowed by itself; the hosts'
\* next-allowed times differ
C37_Witness ==
    /\ interval > 0
    /\ l_host[1] # l_host[2]
    /\ \A w \in Workers : l_calls[w] = MaxCalls /\ lpc[w] = "sleep"
    /\ \A h \in Hosts : next_allowed[h] = last_slot[h] + interval
    /\ next_allowed["a"] # next_allowed["b"]


\* The state shared by the threads of a build: the limiter, used by the pool
\* threads, and the cache map.
InitShared == InitLimiter \/ InitBuild
NextShared == NextLimiter \/ NextBuild
SpecShared == InitShared /\ [][NextShared]_vars

\* C32: mutations of the shared state exclude each other: at most one worker
\* is inside the limiter's read-and-advance, and it holds the lock; the cache
\* map is assigned into by one thread only, the caller of build_all.
C32_SharedMutationsExclusive ==
    /\ Cardinality({w \in Workers : lpc[w] = "in_lock"}) <= 1
    /\ \A w \in Workers : lpc[w] = "in_lock" => lock = w
    /\ cache_writers \subseteq {MainThread}

\* two tasks of one build have completed and both entries are in the cache
\* map, written by the calling thread
C32_Witness ==
    /\ pc = "pool"
    /\ Len(done) = 2
    /\ \A k \in 1..Len(done) : log[done[k]] = "built"
    /\ cache_writers = {MainThread}

(***************************************************************************)
(* _request_with_retry, one call                                           *)
(***************************************************************************)
\* what sess.request can yield: a response with a status code, or one of the
\* exceptions the loop catches (requests.exceptions.RequestException and its
\* subclasses, ConnectionError)
Statuses == {200, 403, 404, 429, 500, 502, 503, 504}
Exceptions == {"ConnectionError", "Timeout", "ChunkedEncodingError"}
Outcomes ==
    {[kind |-> "response", status |-> st, exc |-> "None"] : st \in Statuses}
    \cup {[kind |-> "exception", status |-> 0, exc |-> e] : e \in Exceptions}

\* retryable_status with 404 added
retryable_status_and_404 == {404, 429, 500, 502, 503, 504}

\* retryable_status
retryable_status == {429, 500, 502, 503, 504}

\* a 403 retried at every attempt
retry_403_always(status, att) == status = 403

\* `resp.status_code == 403 and attempt == 0`
retry_403(status, att) == status = 403 /\ att = 0

\* 2 ** attempt
RECURSIVE Pow2(_)
Pow2(n) == IF n = 0 THEN 1 ELSE 2 * Pow2(n - 1)

InitRetry ==
    /\ EndDateIdle
    /\ WeightIdle
    /\ LookupIdle
    /\ PruneIdle
    /\ KeysIdle
    /\ BuildIdle
    /\ MatchIdle
    /\ LimiterIdle
    /\ max_retries \in 0..MaxRetries
    /\ rpc = "loop"
    /\ attempt = 0
    /\ last_exc = NoExc
    /\ r_attempts = <<>>
    /\ r_events = <<>>
    /\ r_waits = 0
    /\ r_backoff = <<>>
    /\ r_result = NoOutcome

\* the limiter waited for before the first request only
attempt_events_wait_once(att) ==
    IF att = 0 THEN <<"wait", "request">> ELSE <<"request">>

\* what one iteration does before it looks at the outcome:
\* `_RATE_LIMITER.wait(url)` and then `sess.request(...)`
attempt_events(att) == <<"wait", "request">>

\* the exhausted loop started again instead of raising
Exhausted_restarting ==
    /\ rpc = "loop"
    /\ attempt >= max_retries
    /\ attempt' = 0
    /\ last_exc' = NoExc
    /\ r_attempts' = <<>>
    /\ r_events' = <<>>
    /\ r_waits' = 0
    /\ r_backoff' = <<>>
    /\ UNCHANGED <<nonRetryVars, max_retries, rpc, r_result>>

\* one iteration of the loop: the limiter's wait, the request, and what the
\* loop does with its outcome
Attempt ==
    /\ rpc = "loop"
    /\ attempt < max_retries
    /\ \E o \in Outcomes :
        /\ r_events' = r_events \o attempt_events(attempt)
        /\ r_waits' = r_waits + Cardinality({p \in DOMAIN attempt_events(attempt) :
                                              attempt_events(attempt)[p] = "wait"})
        /\ r_attempts' = Append(r_attempts, o)
        /\ IF o.kind = "exception"
           THEN /\ last_exc' = [attempt |-> attempt, exc |-> o.exc]
                /\ r_backoff' = Append(r_backoff, Pow2(attempt))
                /\ attempt' = attempt + 1
                /\ UNCHANGED <<rpc, r_result>>
           ELSE IF o.status = 200
           THEN /\ rpc' = "returned"
                /\ r_result' = [kind |-> "response", status |-> o.status, cause |-> NoExc]
                /\ UNCHANGED <<last_exc, r_backoff, attempt>>
           ELSE IF retry_403(o.status, attempt)
           THEN /\ r_backoff' = Append(r_backoff, 1)
                /\ attempt' = attempt + 1
                /\ UNCHANGED <<rpc, r_result, last_exc>>
           ELSE IF o.status \in retryable_status
           THEN /\ r_backoff' = Append(r_backoff, Pow2(attempt))
                /\ attempt' = attempt + 1
                /\ UNCHANGED <<rpc, r_result, last_exc>>
           ELSE /\ rpc' = "returned"
                /\ r_result' = [kind |-> "response", status |-> o.status, cause |-> NoExc]
                /\ UNCHANGED <<last_exc, r_backoff, attempt>>
    /\ UNCHANGED <<nonRetryVars, max_retries>>

\* the loop has ended: TokenFetcherError, with err=last_exc if there is one
Exhausted ==
    /\ rpc = "loop"
    /\ attempt >= max_retries
    /\ rpc' = "raised"
    /\ r_result' = [kind |-> "TokenFetcherError", status |-> 0, cause |-> last_exc]
    /\ UNCHANGED <<nonRetryVars, max_retries, attempt, last_exc, r_attempts, r_events,
                   r_waits, r_backoff>>

NextRetry == Attempt \/ Exhausted

SpecRetry == InitRetry /\ [][NextRetry]_vars

\* The loop is straight-line code of one thread: the limiter's wait ends, the
\* request ends by a response or by an exception (it is sent with a timeout)
\* and every sleep is finite, so a step that can be taken is taken.
SpecRetryLive == SpecRetry /\ WF_vars(NextRetry)

\* the cause of the failure of attempt number k (counted from 1)
CauseOf(k) ==
    IF r_attempts[k].kind = "exception"
    THEN [attempt |-> k - 1, exc |-> r_attempts[k].exc]
    ELSE [attempt |-> k - 1, exc |-> "HTTP"]

\* C14: when the retries are exhausted after at least one attempt, the error
\* raised is the fetch-failed error and it carries the cause of the last
\* attempt, an exception or a retryable status.
C14_ErrorCarriesLastCause ==
    (rpc = "raised" /\ Len(r_attempts) > 0) =>
        /\ r_result.kind = "TokenFetcherError"
        /\ r_result.cause = CauseOf(Len(r_attempts))

\* attempt k yielded a response the loop hands to the caller
FinalResponse(k) ==
    /\ r_attempts[k].kind = "response"
    /\ \/ r_attempts[k].status = 200
       \/ /\ r_attempts[k].status \notin {429, 500, 502, 503, 504}
          /\ ~(r_attempts[k].status = 403 /\ k = 1)

\* C15: an attempt that yields HTTP 200, or a status that is neither
\* retryable nor a first-attempt 403, is the last attempt made, and the call
\* has returned that response.
C15_FinalResponseEndsTheCall ==
    \A k \in 1..Len(r_attempts) :
        FinalResponse(k) =>
            /\ k = Len(r_attempts)
            /\ rpc = "returned"
            /\ r_result.kind = "response"
            /\ r_result.status = r_attempts[k].status

\* a 200 returned after two retried attempts
C15_Witness ==
    /\ rpc = "returned"
    /\ Len(r_attempts) = 3
    /\ r_result.status = 200
    /\ r_attempts[1].status = 403
    /\ r_attempts[2].kind = "exception"

\* attempt k failed in a way the loop retries
Retried(k) ==
    \/ r_attempts[k].kind = "exception"
    \/ r_attempts[k].status \in {429, 500, 502, 503, 504}
    \/ (r_attempts[k].status = 403 /\ k = 1)

\* C16: an attempt that fails by an exception or by HTTP 429/500/502/503/504,
\* whichever attempt it is, or by HTTP 403 as the first attempt, is not
\* returned and is followed by another attempt as long as attempts are left;
\* an HTTP 403 of a later attempt is returned to the caller and ends the call.
C16_RetriesAllBut403Later ==
    \A k \in 1..Len(r_attempts) :
        /\ Retried(k) =>
            /\ rpc = "returned" => k < Len(r_attempts)
            /\ (rpc # "loop" /\ k < max_retries) => k < Len(r_attempts)
            /\ Len(r_backoff) >= k
        /\ (r_attempts[k].kind = "response" /\ r_attempts[k].status = 403 /\ k > 1) =>
            /\ k = Len(r_attempts)
            /\ rpc = "returned"
            /\ r_result.status = 403

\* a first 403 is retried, a second one is returned
C16_Witness ==
    /\ rpc = "returned"
    /\ Len(r_attempts) = 2
    /\ r_attempts[1].status = 403
    /\ r_attempts[2].status = 403
    /\ r_result.status = 403

\* C27: a call makes at most MAX_RETRIES attempts and ends, whatever the
\* upstream answers: it returns a response or it raises the fetch-failed
\* error.
C27_BoundedAndTerminates ==
    /\ [](Len(r_attempts) <= max_retries)
    /\ <>(\/ rpc = "returned" /\ r_result.kind = "response"
          \/ rpc = "raised" /\ r_result.kind = "TokenFetcherError")

\* every attempt allowed was made and failed, and the error was raised
C27_Witness ==
    /\ rpc = "raised"
    /\ max_retries = MaxRetries
    /\ Len(r_attempts) = MaxRetries
    /\ r_attempts[1].kind = "exception"
    /\ r_attempts[MaxRetries].status = 503

\* C28: every attempt, the first and each retry, has exactly one limiter
\* wait, and the wait comes before the request: the call's events are
\* wait, request, wait, request, ... and there are as many waits as attempts.
C28_OneWaitBeforeEachAttempt ==
    /\ r_waits = Len(r_attempts)
    /\ Len(r_events) = 2 * Len(r_attempts)
    /\ \A k \in 1..Len(r_attempts) :
        r_events[2 * k - 1] = "wait" /\ r_events[2 * k] = "request"

\* a call of three attempts, two of them retries
C28_Witness ==
    /\ Len(r_attempts) = 3
    /\ r_waits = 3
    /\ r_attempts[1].kind = "response" /\ r_attempts[1].status = 429
    /\ r_attempts[2].kind = "exception"

(***************************************************************************)
(* prune_expired_markets. Times are hours of one day.                      *)
(***************************************************************************)
\* The endDate strings of the model: absent or empty, unparseable, 01:00 UTC
\* written with "Z", and 03:00 UTC written as 04:00 with the offset +01:00.
NoEndDate == ""
BadEndDate == "soon"
EndDateZ1 == "2030-01-01T01:00:00Z"
EndDateP3 == "2030-01-01T04:00:00+01:00"
EndDates == {NoEndDate, BadEndDate, EndDateZ1, EndDateP3}
SubEndDates == {NoEndDate, EndDateZ1, EndDateP3}

\* _parse_iso_dt: the UTC hour, NoDt for None
NoDt == -1
parse_iso_dt(str) ==
    CASE str = EndDateZ1 -> 1
      [] str = EndDateP3 -> 4 - 1
      [] OTHER -> NoDt

\* `dt and (dt + grace) < now_utc`, with `<=` for `<`
expired_or_now(str, now, grace) ==
    LET dt == parse_iso_dt(str) IN dt # NoDt /\ dt + grace <= now

\* `dt and (dt + grace) < now_utc`
expired(str, now, grace) ==
    LET dt == parse_iso_dt(str) IN dt # NoDt /\ dt + grace < now

\* the entries: type, the top-level endDate (polymarket.endDate of a binary
\* entry, polymarket_event_endDate of a categorical one), and the two
\* sub-lists of a categorical entry, each item with its own endDate
SubItem(d) == [endDate |-> d]
BinaryEntries ==
    {[type |-> "binary", endDate |-> d, pairs |-> <<>>, unmatched_polymarket |-> <<>>] :
        d \in EndDates}
CategoricalEntries ==
    {[type |-> "categorical", endDate |-> d, pairs |-> ps, unmatched_polymarket |-> us] :
        d \in EndDates,
        ps \in SeqsUpTo({SubItem(x) : x \in SubEndDates}, MaxSub),
        us \in SeqsUpTo({SubItem(x) : x \in SubEndDates}, MaxSub)}

\* the entry lists: up to MaxEntries entries, at most one of them categorical
EntrySlot == [type |-> "slot"]
PruneLists ==
    {l \in SeqsUpTo(BinaryEntries \cup {EntrySlot}, MaxEntries) :
        Cardinality({i \in 1..Len(l) : l[i].type = "slot"}) <= 1}
FillSlot(l, c) == [i \in 1..Len(l) |-> IF l[i].type = "slot" THEN c ELSE l[i]]

\* the sub-list filter of lines 1181-1230
filter_sub(items, now, grace) ==
    SelectSeq(items, LAMBDA x : ~expired(x.endDate, now, grace))

\* _collect_end_dts with the top-level timestamp only
collect_end_dts_top_only(e) == {parse_iso_dt(e.endDate)} \ {NoDt}

\* _collect_end_dts, as a set
collect_end_dts(e) ==
    ({parse_iso_dt(e.endDate)}
     \cup {parse_iso_dt(e.pairs[k].endDate) : k \in 1..Len(e.pairs)}
     \cup {parse_iso_dt(e.unmatched_polymarket[k].endDate) :
              k \in 1..Len(e.unmatched_polymarket)}) \ {NoDt}

\* `latest and (latest + grace) < now_utc`
latest_expired(e, now, grace) ==
    LET dts == collect_end_dts(e)
    IN  dts # {} /\ (CHOOSE x \in dts : \A y \in dts : y <= x) + grace < now

\* an entry whose pairs list was empty before the filter is removed
no_pairs_removed_unfiltered(before, after, now, grace) ==
    before.type = "categorical" /\ before.pairs = <<>>

\* lines 1250-1264: a categorical entry left without pairs is removed if its
\* latest timestamp is expired
no_pairs_removed(before, after, now, grace) ==
    after.type = "categorical" /\ after.pairs = <<>> /\ latest_expired(after, now, grace)

\* one iteration of `for entry in results`: the entry as the iteration leaves
\* it, and whether it is appended to kept
prune_entry(e, now, grace) ==
    LET after == IF e.type = "categorical"
                 THEN [e EXCEPT !.pairs = filter_sub(e.pairs, now, grace),
                                !.unmatched_polymarket =
                                    filter_sub(e.unmatched_polymarket, now, grace)]
                 ELSE e
    IN  [entry |-> after,
         keep |-> ~latest_expired(after, now, grace)
                  /\ ~no_pairs_removed(e, after, now, grace)]

RECURSIVE kept_from(_, _)
\* the list kept: the entries appended, in order
kept_from(it, i) ==
    IF i > Len(it) THEN <<>>
    ELSE IF it[i].keep THEN <<it[i].entry>> \o kept_from(it, i + 1)
    ELSE kept_from(it, i + 1)

\* prune_expired_markets: the entries after the call, the flags, the list kept
prune_expired_markets(entries_in, now, grace) ==
    LET it == [i \in 1..Len(entries_in) |-> prune_entry(entries_in[i], now, grace)]
    IN  [after |-> [i \in 1..Len(entries_in) |-> it[i].entry],
         keep |-> [i \in 1..Len(entries_in) |-> it[i].keep],
         kept |-> kept_from(it, 1)]

InitPrune ==
    /\ EndDateIdle
    /\ WeightIdle
    /\ LookupIdle
    /\ KeysIdle
    /\ BuildIdle
    /\ MatchIdle
    /\ LimiterIdle
    /\ RetryIdle
    /\ ppc = "start"
    /\ \E l \in PruneLists, c \in CategoricalEntries : p_input = FillSlot(l, c)
    /\ p_results = p_input
    /\ p_now = 3
    /\ p_grace \in 0..2
    /\ p_keep = <<>>
    /\ p_kept = <<>>
    /\ p_again = <<>>

\* results = prune_expired_markets(results, now, grace)
Prune ==
    /\ ppc = "start"
    /\ LET r == prune_expired_markets(p_results, p_now, p_grace)
       IN  /\ p_results' = r.after
           /\ p_keep' = r.keep
           /\ p_kept' = r.kept
    /\ ppc' = "pruned"
    /\ UNCHANGED <<nonPruneVars, p_input, p_now, p_grace, p_again>>

\* the list returned is pruned again with the same now and grace
PruneAgain ==
    /\ ppc = "pruned"
    /\ p_again' = prune_expired_markets(p_kept, p_now, p_grace).kept
    /\ ppc' = "again"
    /\ UNCHANGED <<nonPruneVars, p_input, p_results, p_now, p_grace, p_keep, p_kept>>

NextPrune == Prune \/ PruneAgain

SpecPrune == InitPrune /\ [][NextPrune]_vars

\* the resolution timestamps an entry holds at any level, and the time before
\* which a timestamp is expired
TimestampsOf(e) ==
    {parse_iso_dt(d) :
        d \in {e.endDate} \cup {e.pairs[k].endDate : k \in 1..Len(e.pairs)}
              \cup {e.unmatched_polymarket[k].endDate :
                       k \in 1..Len(e.unmatched_polymarket)}} \ {NoDt}
Cutoff == p_now - p_grace
ItemExpired(x) == parse_iso_dt(x.endDate) # NoDt /\ parse_iso_dt(x.endDate) < Cutoff

\* C17: pruning the list the pruner returned, with the same now and grace,
\* returns a list equal to it.
C17_PruneIdempotent ==
    ppc = "again" => p_again = p_kept

\* the first call dropped an entry and emptied the pairs of a categorical
\* entry it kept
C17_Witness ==
    /\ ppc = "again"
    /\ Len(p_kept) < Len(p_input)
    /\ \E i \in 1..Len(p_input) :
        /\ p_keep[i]
        /\ p_input[i].pairs # <<>>
        /\ p_results[i].pairs = <<>>
        /\ p_results[i] \in {p_again[k] : k \in 1..Len(p_again)}

\* C18: after the sub-list filter an entry is dropped exactly if it still
\* holds a timestamp at some level and the latest of them is earlier than
\* now - grace.
C18_DroppedIffLatestExpired ==
    ppc # "start" =>
        \A i \in 1..Len(p_results) :
            LET ts == TimestampsOf(p_results[i])
            IN  (~p_keep[i]) <=> (ts # {} /\ SetMax(ts) < Cutoff)

\* a categorical entry whose only pair was removed is kept for its unexpired
\* top-level timestamp, next to an entry that is dropped
C18_Witness ==
    /\ ppc = "pruned"
    /\ \E i, j \in 1..Len(p_results) :
        /\ p_keep[i]
        /\ p_results[i].type = "categorical"
        /\ p_input[i].pairs # <<>>
        /\ p_results[i].pairs = <<>>
        /\ parse_iso_dt(p_results[i].endDate) >= Cutoff
        /\ ~p_keep[j]

C20_FileIsFinalCache ==
    (pc = "idle" /\ run > 0) =>
        {file[k] : k \in 1..Len(file)}
            = {heap[cache[key]] : key \in {x \in Keys : cache[x] # 0}}

\* C21: the pruner leaves the entry list it is given, and every entry of it
\* with its pairs and unmatched side-B lists, as they were before the call.
C21_PruneLeavesInputUnchanged ==
    ppc # "start" => p_results = p_input

\* C22: while the pool runs, every submitted task is either still pending or
\* has completed exactly once, whatever the others did; when build_all has
\* returned from the pool no task is pending and each has completed, by
\* success or by exception.
C22_AllTasksCompleteBeforeReturn ==
    (pc \in {"pool", "returned"} /\ tasks # <<>>) =>
        /\ \A i \in TaskSet :
            Cardinality({k \in 1..Len(done) : done[k] = i}) = (IF i \in pending THEN 0 ELSE 1)
        /\ \A k \in 1..Len(done) :
            done[k] \in TaskSet /\ log[done[k]] \in {"built", "failed", "fallback"}
        /\ pc = "returned" => (pending = {} /\ Len(done) = Len(tasks))

\* the first task to complete raised, the second one completed after it with
\* success, and build_all has returned
C22_Witness ==
    /\ pc = "returned"
    /\ Len(done) = 2
    /\ log[done[1]] = "failed"
    /\ log[done[2]] = "built"

\* C25: a run that finds no registry file raises nothing and starts from an
\* empty cache: no config is served from the cache, every config whose key
\* is computed becomes a build task, and every task that builds has an
\* entry of its key, built in this run, in the returned list.
C25_AbsentFileIsEmptyCache ==
    (run > 0 /\ file_state = "absent") =>
        /\ pc # "crashed"
        /\ \A i \in 1..Len(cfgs) :
            /\ log[i] # "hit"
            /\ (InBuild /\ i < idx /\ ~cache_key_raises(cfgs[i])) => i \in TaskSet
            /\ (pc = "returned" /\ log[i] = "built") =>
                   \E k \in RetFor(i) :
                       /\ ret[k].e.gen = run
                       /\ cache_key_from_entry(ret[k].e) = cache_key_from_cfg(cfgs[i])

C25_Witness ==
    /\ file_state = "absent" /\ run = 1 /\ ~refresh /\ pc = "returned"
    /\ Len(cfgs) = MaxCfg /\ Len(tasks) = MaxCfg /\ Len(ret) = MaxCfg
    /\ \A i \in 1..Len(cfgs) : log[i] = "built"

C33_OneTaskPerCacheKey ==
    \A i, j \in TaskSet :
        i # j => cache_key_from_cfg(cfgs[i]) # cache_key_from_cfg(cfgs[j])

\* C38: every entry of the returned list has the display name of the config
\* it was produced for, whether it was built, served from the cache or kept
\* as a stale fallback, also when two configs share one cache key.
C38_ReturnedNameIsConfigs ==
    pc = "returned" =>
        \A k \in 1..Len(ret) : ret[k].e.name = cfgs[ret[k].src].name

\* C39: every entry a completed task has stored in the cache, and every entry
\* of the returned list, is usable.
C39_BuiltAndReturnedUsable ==
    /\ \A i \in 1..Len(cfgs) :
          log[i] = "built" => entry_is_usable(heap[TaskObj(i)])
    /\ pc = "returned" =>
          \A k \in 1..Len(ret) : entry_is_usable(ret[k].e)

(***************************************************************************)
(* The matcher on lists drawn from the labels of a rate decision           *)
(***************************************************************************)
ExampleOpTitles == {"Decrease", "Increase", "No change"}
ExamplePmCandidates == {"25 bps decrease", "25 bps increase", "Fed holds rates"}

\* both providers have answered: every side-A child and every market of the
\* event has an id of its own (its position) and both trade identifiers
InitExample ==
    /\ EndDateIdle
    /\ WeightIdle
    /\ LookupIdle
    /\ BuildIdle
    /\ LimiterIdle
    /\ RetryIdle
    /\ PruneIdle
    /\ KeysIdle
    /\ mpc = "match"
    /\ \E ts \in SeqsUpTo(ExampleOpTitles, MaxExample) :
        op_children = [a \in 1..Len(ts) |-> OpChild(a, ts[a], TRUE)]
    /\ \E cs \in SeqsUpTo(ExamplePmCandidates, MaxExample) :
        event_markets = [b \in 1..Len(cs) |-> EventMarket(b, cs[b], TRUE)]
    /\ pm_markets = gamma_event_to_candidate_markets(event_markets)
    /\ m_i = 1
    /\ used_pm_market_ids = {}
    /\ pairs = <<>>
    /\ entry = NoLists

SpecExample == InitExample /\ [][NextMatch]_vars

\* C23: with side-A labels Decrease, Increase, No change and side-B labels
\* 25 bps decrease, 25 bps increase, Fed holds rates the entry built has three
\* pairs, nothing unmatched on either side, and Decrease is paired with
\* 25 bps decrease.
C23_RateDecisionExample ==
    ( /\ mpc = "built"
      /\ [a \in 1..Len(op_children) |-> op_children[a].title]
            = <<"Decrease", "Increase", "No change">>
      /\ [b \in 1..Len(event_markets) |-> event_markets[b].candidate]
            = <<"25 bps decrease", "25 bps increase", "Fed holds rates">> )
    => /\ Len(entry.pairs) = 3
       /\ entry.unmatched_opinion = <<>>
       /\ entry.unmatched_polymarket = <<>>
       /\ \E k \in 1..3 :
            /\ entry.pairs[k].candidate = "Decrease"
            /\ entry.pairs[k].polymarket.candidate = "25 bps decrease"

(***************************************************************************)
(* _make_keys, one call                                                    *)
(***************************************************************************)
\* the texts given to the key generator: the labels above, the empty string
\* and a label of punctuation only
KeyTexts ==
    OpTitles \cup PmCandidates \cup PlaceholderLabels \cup ExampleOpTitles
    \cup ExamplePmCandidates \cup {"", "!!!"}

InitKeys ==
    /\ EndDateIdle
    /\ WeightIdle
    /\ LookupIdle
    /\ BuildIdle
    /\ MatchIdle
    /\ LimiterIdle
    /\ RetryIdle
    /\ PruneIdle
    /\ kpc = "call"
    /\ k_label \in KeyTexts
    /\ k_extra \in KeyTexts
    /\ k_keys = {}

\* keys = _make_keys(label, extra_text)
MakeKeys ==
    /\ kpc = "call"
    /\ k_keys' = make_keys(k_label, k_extra)
    /\ kpc' = "done"
    /\ UNCHANGED <<nonKeysVars, k_label, k_extra>>

NextKeys == MakeKeys

SpecKeys == InitKeys /\ [][NextKeys]_vars

\* C24: a call with a non-empty label or a non-empty secondary text returns at
\* least one fingerprint.
C24_KeysNeverEmpty ==
    (kpc = "done" /\ (k_label # "" \/ k_extra # "")) => k_keys # {}

(***************************************************************************)
(* The Opinion market lookups: _opinion_get_market_generic (binary) and    *)
(* _opinion_get_categorical_market_by_id, one call                         *)
(***************************************************************************)
\* what _http_get_json yields for one URL: a TokenFetcherError (the retries
\* are used up, a status other than 200, a body that is not JSON), or the
\* decoded body: its "code", and whether result/data holds a market, is
\* empty, or the body is no dict at all
Codes == {"0", "None", "1004"}
Shapes == {"data", "flat", "empty"}
HttpError == [http |-> "error", code |-> "None", shape |-> "empty"]
NotADict == [http |-> "ok", code |-> "None", shape |-> "not_dict"]
Responses ==
    {HttpError, NotADict}
    \cup {[http |-> "ok", code |-> c, shape |-> sh] : c \in Codes, sh \in Shapes}

\* urls = [.../market/binary/{id}, .../market/{id}]
LookupUrls == <<"market/binary", "market">>

InitLookup ==
    /\ EndDateIdle
    /\ WeightIdle
    /\ BuildIdle
    /\ MatchIdle
    /\ LimiterIdle
    /\ RetryIdle
    /\ PruneIdle
    /\ KeysIdle
    /\ lk_type \in {"binary", "categorical"}
    /\ lk_pc = "loop"
    /\ lk_url = 1
    /\ lk_requests = <<>>
    /\ lk_last_err = ""
    /\ lk_market = ""

\* _opinion_get_market_generic: one iteration of `for url in urls`
LookupGeneric ==
    /\ lk_type = "binary"
    /\ lk_pc = "loop"
    /\ lk_url <= Len(LookupUrls)
    /\ \E o \in Responses :
        /\ lk_requests' = Append(lk_requests, [url |-> LookupUrls[lk_url], o |-> o])
        /\ IF o.http = "error"
           THEN /\ lk_last_err' = "exception"
                /\ lk_url' = lk_url + 1
                /\ UNCHANGED <<lk_pc, lk_market>>
           ELSE IF o.shape = "not_dict"
           THEN /\ lk_pc' = "raised"
                /\ UNCHANGED <<lk_url, lk_last_err, lk_market>>
           ELSE IF o.code \notin {"0", "None"}
           THEN /\ lk_last_err' = "code"
                /\ lk_url' = lk_url + 1
                /\ UNCHANGED <<lk_pc, lk_market>>
           ELSE IF o.shape # "empty"
           THEN /\ lk_pc' = "returned"
                /\ lk_market' = o.shape
                /\ UNCHANGED <<lk_url, lk_last_err>>
           ELSE /\ lk_last_err' = "shape"
                /\ lk_url' = lk_url + 1
                /\ UNCHANGED <<lk_pc, lk_market>>
    /\ UNCHANGED <<nonLookupVars, lk_type>>

\* the loop over urls has ended: `raise TokenFetcherError(last_err or ...)`
LookupGenericFails ==
    /\ lk_type = "binary"
    /\ lk_pc = "loop"
    /\ lk_url > Len(LookupUrls)
    /\ lk_pc' = "raised"
    /\ UNCHANGED <<nonLookupVars, lk_type, lk_url, lk_requests, lk_last_err, lk_market>>

\* _opinion_get_categorical_market_by_id: its one request
LookupCategorical ==
    /\ lk_type = "categorical"
    /\ lk_pc = "loop"
    /\ \E o \in Responses :
        /\ lk_requests' = Append(lk_requests, [url |-> "market/categorical", o |-> o])
        /\ IF o.http = "error" \/ o.shape = "not_dict"
           THEN /\ lk_pc' = "raised"
                /\ UNCHANGED <<lk_last_err, lk_market>>
           ELSE IF o.code \notin {"0", "None"}
           THEN /\ lk_pc' = "raised"
                /\ lk_last_err' = "code"
                /\ UNCHANGED lk_market
           ELSE /\ lk_pc' = "returned"
                /\ lk_market' = o.shape
                /\ UNCHANGED lk_last_err
    /\ UNCHANGED <<nonLookupVars, lk_type, lk_url>>

NextLookup == LookupGeneric \/ LookupGenericFails \/ LookupCategorical

SpecLookup == InitLookup /\ [][NextLookup]_vars

\* a 200 response that carries a non-zero code or has not the expected shape
SemanticError(o) ==
    /\ o.http = "ok"
    /\ (o.code \notin {"0", "None"} \/ o.shape \in {"empty", "not_dict"})

\* C31: a response that is a semantic error is the last request of its
\* lookup, and the lookup has raised (which fails the build task of the
\* config); for the binary and for the categorical lookup.
C31_SemanticErrorRaisedAtOnce ==
    \A k \in 1..Len(lk_requests) :
        SemanticError(lk_requests[k].o) =>
            /\ k = Len(lk_requests)
            /\ lk_pc = "raised"

(***************************************************************************)
(* _score_keys, one call on a set of fingerprints                          *)
(***************************************************************************)
\* fingerprints of every kind _make_keys produces: directional thresholds of
\* 3 digits and of 1, numbers of 3 digits and of 2, ranges of 3-digit bounds
\* and with a 1-digit bound, a month-day, the rate words, yes/no, other words
WeightKeys ==
    {"ge_100", "ge_5", "150", "42", "280-295", "0-24", "december 15", "increase",
     "decrease", "hold", "no change", "yes", "no", "fed holds"}

InitWeight ==
    /\ EndDateIdle
    /\ BuildIdle
    /\ MatchIdle
    /\ LimiterIdle
    /\ RetryIdle
    /\ PruneIdle
    /\ KeysIdle
    /\ LookupIdle
    /\ wpc = "call"
    /\ w_keys \in {S \in SUBSET WeightKeys : Cardinality(S) <= MaxKeys}
    /\ w_score = 0

\* score = _score_keys(inter)
ScoreKeys ==
    /\ wpc = "call"
    /\ w_score' = score_keys(w_keys)
    /\ wpc' = "done"
    /\ UNCHANGED <<nonWeightVars, w_keys>>

NextWeight == ScoreKeys

SpecWeight == InitWeight /\ [][NextWeight]_vars

\* the weight the claim gives a fingerprint
ClaimedWeight(k) ==
    LET f == KeyForm(k)
    IN  IF f.form = "dir" /\ f.d1 >= 2 THEN 12
        ELSE IF f.form = "num" /\ f.d1 >= 3 THEN 10
        ELSE IF f.form = "range" THEN 9
        ELSE IF f.form = "monthday" THEN 7
        ELSE IF k \in {"increase", "decrease", "hold", "no change"} THEN 3
        ELSE IF k \in {"yes", "no"} THEN 2
        ELSE 1

RECURSIVE ClaimedScore(_)
ClaimedScore(ks) ==
    IF ks = {} THEN 0
    ELSE LET k == CHOOSE x \in ks : TRUE
         IN  ClaimedWeight(k) + ClaimedScore(ks \ {k})

\* C35: the score of a set of fingerprints is the sum of their weights: 12
\* for a directional threshold of 2 or more digits, 10 for a number of 3 or
\* more digits, 9 for every numeric range, 7 for a month-day, 3 for a rate
\* word, 2 for yes/no and 1 for anything else.
C35_WeightsAsListed ==
    wpc = "done" => w_score = ClaimedScore(w_keys)

(***************************************************************************)
(* The endDate of the side-B markets of one event:                         *)
(* gamma_event_to_candidate_markets and the endDate build_entry_from_urls  *)
(* writes into pairs and unmatched_polymarket                              *)
(***************************************************************************)
\* endDate values: none (""), two a market is listed with, one that only
\* /markets/{id} knows, and the event's
ListedEndDates == {"", "2030-01-01", "2030-02-01"}
FullEndDate == "2030-03-01"
EventEndDates == {"", "2030-12-31"}
\* market ids of the event's markets; 0: the market has no id
EvMarketIds == {0, 1, 2}
EvMarkets == {[market_id |-> m, endDate |-> d] : m \in EvMarketIds, d \in ListedEndDates}
\* what gamma_get_market_by_id does: raises, or returns a market without or
\* with an endDate
MarketLookups == {"raise", "", FullEndDate}
NotLookedUp == "?"

\* the event's endDate wherever it is set
end_date_event_first(m_end, event_end) == IF event_end # "" THEN event_end ELSE m_end

\* `m_end or event_end_date`
end_date_or(m_end, event_end) == IF m_end # "" THEN m_end ELSE event_end

InitEndDate ==
    /\ BuildIdle
    /\ MatchIdle
    /\ LimiterIdle
    /\ RetryIdle
    /\ PruneIdle
    /\ KeysIdle
    /\ LookupIdle
    /\ WeightIdle
    /\ e_pc = "loop"
    /\ e_event_end \in EventEndDates
    /\ e_markets \in SeqsUpTo(EvMarkets, MaxEv)
    /\ e_i = 1
    /\ enddate_cache = [m \in EvMarketIds \ {0} |-> NotLookedUp]
    /\ e_lookups = <<>>
    /\ e_out = <<>>
    /\ e_stamps = <<>>

\* one iteration of `for m in markets`: the market's own endDate, else the
\* one /markets/{id} has (looked up once per id, None when the call fails),
\* else the event's
EndDateStep ==
    /\ e_pc = "loop"
    /\ e_i <= Len(e_markets)
    /\ LET m == e_markets[e_i]
       IN  IF m.endDate # ""
           THEN /\ e_out' = Append(e_out, end_date_or(m.endDate, e_event_end))
                /\ UNCHANGED <<enddate_cache, e_lookups>>
           ELSE IF m.market_id = 0
           THEN /\ e_out' = Append(e_out, end_date_or("", e_event_end))
                /\ UNCHANGED <<enddate_cache, e_lookups>>
           ELSE IF enddate_cache[m.market_id] # NotLookedUp
           THEN /\ e_out' = Append(e_out, end_date_or(enddate_cache[m.market_id], e_event_end))
                /\ UNCHANGED <<enddate_cache, e_lookups>>
           ELSE \E o \in MarketLookups :
                LET found == IF o = "raise" THEN "" ELSE o
                IN  /\ e_lookups' = Append(e_lookups, [market_id |-> m.market_id, o |-> o])
                    /\ enddate_cache' = [enddate_cache EXCEPT ![m.market_id] = found]
                    /\ e_out' = Append(e_out, end_date_or(found, e_event_end))
    /\ e_i' = e_i + 1
    /\ UNCHANGED <<nonEndDateVars, e_pc, e_event_end, e_markets, e_stamps>>

\* build_entry_from_urls writes `pm.get("endDate") or ev_end_date` into the
\* pair or the unmatched item of every market
WriteEndDates ==
    /\ e_pc = "loop"
    /\ e_i > Len(e_markets)
    /\ e_stamps' = [k \in 1..Len(e_out) |-> end_date_or(e_out[k], e_event_end)]
    /\ e_pc' = "done"
    /\ UNCHANGED <<nonEndDateVars, e_event_end, e_markets, e_i, enddate_cache, e_lookups,
                   e_out>>

NextEndDate == EndDateStep \/ WriteEndDates

SpecEndDate == InitEndDate /\ [][NextEndDate]_vars

\* the outcomes of the lookups made for market id m
LookupsOf(m) == {e_lookups[k].o : k \in {x \in 1..Len(e_lookups) : e_lookups[x].market_id = m}}

\* the timestamp market k has of its own: the one it is listed with, else the
\* one its /markets/{id} lookup returned ("" when it has none)
OwnEndDate(k) ==
    LET m == e_markets[k]
    IN  IF m.endDate # "" THEN m.endDate
        ELSE IF m.market_id # 0 /\ FullEndDate \in LookupsOf(m.market_id) THEN FullEndDate
        ELSE ""

\* C36: the endDate written for every side-B market, paired or unmatched, is
\* the market's own when it has one and the event's otherwise; a lookup that
\* fails leaves the conversion running and gives the event's endDate.
C36_OwnEndDateElseEvents ==
    /\ e_pc \in {"off", "loop", "done"}
    /\ e_pc = "done" =>
        /\ Len(e_stamps) = Len(e_markets)
        /\ \A k \in 1..Len(e_markets) :
            e_stamps[k] = IF OwnEndDate(k) # "" THEN OwnEndDate(k) ELSE e_event_end

\* an event with an endDate and two markets: one listed with its own endDate,
\* one whose lookup failed
C36_Witness ==
    /\ e_pc = "done"
    /\ e_event_end # ""
    /\ Len(e_markets) = 2
    /\ e_markets[1].endDate # "" /\ e_stamps[1] = e_markets[1].endDate
    /\ e_markets[2].endDate = ""
    /\ Len(e_lookups) = 1 /\ e_lookups[1].o = "raise"
    /\ e_stamps[2] = e_event_end

====
